---- MODULE Spec2Model ----
(***************************************************************************)
(* Model of the M-Pesa STK push relay (kandabrian/mpesa-stk).              *)
(*                                                                         *)
(* Three drafts of the service are modelled:                               *)
(*   - src/server.js (Hugging Face draft): actions HF_*                    *)
(*   - src/unnamed/part_003 (draft "2.0.0"): actions V2_*                  *)
(*   - src/unnamed/part_002 (Render draft), GET /status: actions R2_*      *)
(*                                                                         *)
(* An action is one turn of the single-threaded event loop: a handler runs *)
(* from its entry (or from the settlement of the promise it awaits) to its *)
(* next await or to its end.  Everything a handler puts on the network in  *)
(* a turn is appended, in statement order, to a per-request wire log.      *)
(* Requests are numbered in their order of arrival.                        *)
(***************************************************************************)
EXTENDS Integers, Sequences, FiniteSets, TLC

(* ---------------------------- bounds ----------------------------------- *)
NumPay == 2          \* concurrent /pay requests
NumCallbacks == 1    \* callbacks delivered by the gateway
MaxTicks == 2        \* number of clock advances
MaxPhoneLen == 3     \* length of the phone strings tried
MaxDescriptionLen == 15  \* length of the description strings tried

PayIds == 1..NumPay
CbIds == 1..NumCallbacks

\* The first request to arrive.
FirstPay == CHOOSE p \in PayIds : \A q \in PayIds : p <= q

(* ------------------------ program constants ---------------------------- *)
TokenLifetimeMs == 3590 * 1000   \* tokenCache.expiry = now + 3590 * 1000
AuthTimeoutMs == 10000           \* axios.get(..., { timeout: 10000 })
PushTimeoutMs == 15000           \* axios.post(stkpush, { timeout: 15000 })
ForwardTimeoutMs == 10000        \* axios.post(target, { timeout: 10000 })
V2PushTimeoutMs == 30000         \* part_003: axios.post(stkpush, { timeout: 30000 })
V2StatusTimeoutMs == 15000       \* part_003: axios.post(stkpushquery, { timeout: 15000 })
R2TokenLifetimeMs == 3599 * 1000 \* part_002: tokenCache.expiry = now + (3599 * 1000)
SecondMs == 1000

\* Amounts by which Date.now() advances between two turns of the event loop:
\* a second (less than every timeout) or a token lifetime (more than every
\* timeout).
ClockSteps == {SecondMs, TokenLifetimeMs}

(* --------------------------- JS values --------------------------------- *)
\* An object is a record; a missing field is a field outside its DOMAIN.
EmptyObject == <<>>

Has(obj, f) == f \in DOMAIN obj

\* obj?.f for an object-or-undefined obj, undefined being EmptyObject.
Field(obj, f) == IF Has(obj, f) THEN obj[f] ELSE EmptyObject

Unset == [set |-> FALSE]
Val(v) == [set |-> TRUE, v |-> v]

(* ------------------ JS values of the /pay request body ------------------ *)
\* A string is its sequence of characters; a number is held as its decimal
\* text, which is what String(x) and parseFloat(x) read.
JsUndefined == [t |-> "undefined", chars |-> << >>]
JsStr(chars) == [t |-> "string", chars |-> chars]
JsNum(chars) == [t |-> "number", chars |-> chars]
JsNull == [t |-> "null", chars |-> << >>]

DigitChars == {"0", "1", "2", "3", "4", "5", "6", "7", "8", "9"}
IsDigit(ch) == ch \in DigitChars
DigitValue(ch) ==
    CASE ch = "0" -> 0 [] ch = "1" -> 1 [] ch = "2" -> 2 [] ch = "3" -> 3
      [] ch = "4" -> 4 [] ch = "5" -> 5 [] ch = "6" -> 6 [] ch = "7" -> 7
      [] ch = "8" -> 8 [] ch = "9" -> 9

RECURSIVE TakeDigits(_)
TakeDigits(s) ==
    IF s = << >> \/ ~IsDigit(Head(s)) THEN << >>
    ELSE << Head(s) >> \o TakeDigits(Tail(s))

RECURSIVE SkipSpaces(_)
SkipSpaces(s) ==
    IF s # << >> /\ Head(s) = " " THEN SkipSpaces(Tail(s)) ELSE s

RECURSIVE DigitsToInt(_)
DigitsToInt(s) ==
    IF s = << >> THEN 0
    ELSE 10 * DigitsToInt(SubSeq(s, 1, Len(s) - 1)) + DigitValue(s[Len(s)])

\* A parsed number: NaN, or sign, integer part and whether a fraction remains.
NaN == [nan |-> TRUE, neg |-> FALSE, int |-> 0, frac |-> FALSE]

\* parseFloat: leading blanks, an optional sign, digits, an optional point and
\* digits; what follows is ignored; NaN when no digit was read.
ParseFloat(chars) ==
    LET s0 == SkipSpaces(chars)
        signed == s0 # << >> /\ Head(s0) \in {"+", "-"}
        s1 == IF signed THEN Tail(s0) ELSE s0
        ip == TakeDigits(s1)
        rest == SubSeq(s1, Len(ip) + 1, Len(s1))
        fp == IF rest # << >> /\ Head(rest) = "." THEN TakeDigits(Tail(rest))
              ELSE << >>
    IN  IF ip = << >> /\ fp = << >> THEN NaN
        ELSE [nan |-> FALSE,
              neg |-> signed /\ Head(s0) = "-",
              int |-> DigitsToInt(ip),
              frac |-> \E i \in DOMAIN fp : fp[i] # "0"]

\* Math.floor of a parsed number: NaN stays NaN.
MathFloor(n) ==
    IF n.nan THEN [nan |-> TRUE, v |-> 0]
    ELSE [nan |-> FALSE,
          v |-> IF ~n.neg THEN n.int
                ELSE IF n.frac THEN -n.int - 1 ELSE -n.int]

\* !x is false: undefined, "" and the number 0 are falsy.
Truthy(x) ==
    CASE x.t = "undefined" -> FALSE
      [] x.t = "string" -> x.chars # << >>
      [] x.t = "number" -> LET n == ParseFloat(x.chars)
                           IN  ~n.nan /\ (n.int # 0 \/ n.frac)

\* Variant of DigitsOnly that removes blanks only.
DigitsOnly_StripSpaces(chars) == SelectSeq(chars, LAMBDA ch : ch # " ")

\* String(phone).replace(/\D/g, "")
DigitsOnly(chars) == SelectSeq(chars, IsDigit)

\* req.body of POST /pay: { phone, amount, description }.
BodyWith(phone, amount, description) ==
    [phone |-> phone, amount |-> amount, description |-> description]

\* The route of a request: GET /status and GET /token requests name theirs,
\* a POST /pay request is its body.
Route(req) == IF "route" \in DOMAIN req THEN req.route ELSE "/pay"

\* A body without description.
Body(phone, amount) == BodyWith(phone, amount, JsUndefined)
NoBody == Body(JsUndefined, JsUndefined)

PhoneInputs ==
    { JsUndefined,
      JsStr(<< >>),
      JsNum(<< "0" >>),
      JsStr(<< "+", "2", "5", "4", " ", "7" >>) }

AmountInputs ==
    { JsUndefined,
      JsNum(<< "0" >>),
      JsNum(<< "0", ".", "9" >>),
      JsNum(<< "-", "0", ".", "5" >>),
      JsNum(<< "1", "0", "0" >>),
      JsStr(<< >>),
      JsStr(<< "0" >>),
      JsStr(<< "0", ".", "9" >>),
      JsStr(<< "-", "1", ".", "5" >>),
      JsStr(<< "4", "9", ".", "9" >>),
      JsStr(<< "a", "b", "c" >>) }

\* Every string of at most n characters out of digits, "+" and blank.
PhoneChars == {"2", "7", "+", " "}

RECURSIVE PhoneStrings(_)
PhoneStrings(n) ==
    IF n = 0 THEN { << >> }
    ELSE LET shorter == PhoneStrings(n - 1)
         IN  shorter \cup { Append(s, ch) : s \in shorter, ch \in PhoneChars }

\* Bodies with an accepted amount and every phone: the strings above and the
\* numbers 72 and 7.5, which String() turns into "72" and "7.5".
PhoneBodies ==
    { Body(ph, JsStr(<< "4", "9", ".", "9" >>)) :
        ph \in { JsStr(s) : s \in PhoneStrings(MaxPhoneLen) }
                 \cup { JsNum(<< "7", "2" >>), JsNum(<< "7", ".", "5" >>) } }

\* The string of the first n letters of the alphabet.
Letters ==
    << "a", "b", "c", "d", "e", "f", "g", "h", "i", "j", "k", "l", "m", "n",
       "o", "p", "q", "r", "s", "t", "u", "v", "w", "x", "y", "z" >>
LettersUpTo(n) == [i \in 1..n |-> Letters[((i - 1) % Len(Letters)) + 1]]

\* Bodies with an accepted phone and amount and every description: none, the
\* strings of 0..MaxDescriptionLen letters, the number 12345 and null.
DescriptionInputs ==
    { JsStr(LettersUpTo(n)) : n \in 0..MaxDescriptionLen }
        \cup { JsUndefined, JsNull, JsNum(<< "1", "2", "3", "4", "5" >>) }

DescriptionBodies ==
    { BodyWith(JsStr(<< "+", "2", "5", "4", " ", "7" >>),
               JsStr(<< "4", "9", ".", "9" >>), d) : d \in DescriptionInputs }

\* Every request body over the inputs above.
PayBodies == { Body(ph, am) : ph \in PhoneInputs, am \in AmountInputs }

\* The bodies used where the interleaving of handlers is explored.
CoreBodies ==
    { Body(JsStr(<< "+", "2", "5", "4", " ", "7" >>),
           JsStr(<< "4", "9", ".", "9" >>)),
      Body(JsUndefined, JsNum(<< "1", "0", "0" >>)) }

(* --------------------------- token cache -------------------------------- *)
\* tokenCache.token is null at load, the access_token string of a response,
\* or undefined when the response body had no access_token.
NullToken == [t |-> "null", id |-> 0]
UndefinedToken == [t |-> "undefined", id |-> 0]
Token(id) == [t |-> "string", id |-> id]

\* tokenCache.expiry is null at load; null compares as 0.
NullExpiry == 0

\* How an awaited gateway call settled: not yet, with the data of a 2xx
\* response (mpesaRes.data), or with an axios rejection.
NoPush == [outcome |-> "none", data |-> EmptyObject]
Answered(data) == [outcome |-> "ok", data |-> data]
Rejected(err) == [outcome |-> err, data |-> EmptyObject]

(* ------------------------ callback payloads ---------------------------- *)
Pair(n, v) == [isNull |-> FALSE, Name |-> n, Value |-> v]
NullElem == [isNull |-> TRUE, Name |-> "", Value |-> 0]

ItemsFull == [kind |-> "list",
              elems |-> << Pair("Amount", 500),
                           Pair("MpesaReceiptNumber", "NLJ7RT61SV"),
                           Pair("PhoneNumber", "254712345678") >>]
ItemsNoAmount == [kind |-> "list",
                  elems |-> << Pair("MpesaReceiptNumber", "NLJ7RT61SV") >>]
ItemsWithNull == [kind |-> "list",
                  elems |-> << NullElem, Pair("Amount", 500) >>]
ItemsObject == [kind |-> "object", elems |-> << >>]

Envelope(stk) == [Body |-> [stkCallback |-> stk]]

\* The payload shapes the gateway (or anyone) may POST to /callback.
Payloads ==
    { EmptyObject,
      [Body |-> EmptyObject],
      Envelope(EmptyObject),
      Envelope([CheckoutRequestID |-> "ws_CO_1", ResultCode |-> 1032,
                ResultDesc |-> "Request cancelled by user"]),
      Envelope([CheckoutRequestID |-> "ws_CO_1", ResultCode |-> 0,
                ResultDesc |-> "ok"]),
      Envelope([CheckoutRequestID |-> "ws_CO_1", ResultCode |-> 0,
                ResultDesc |-> "ok", CallbackMetadata |-> EmptyObject]),
      Envelope([CheckoutRequestID |-> "ws_CO_1", ResultCode |-> 0,
                ResultDesc |-> "ok",
                CallbackMetadata |-> [Item |-> ItemsFull]]),
      Envelope([CheckoutRequestID |-> "ws_CO_1", ResultCode |-> 0,
                ResultDesc |-> "ok",
                CallbackMetadata |-> [Item |-> ItemsNoAmount]]),
      Envelope([ResultCode |-> 0,
                CallbackMetadata |-> [Item |-> ItemsWithNull]]),
      Envelope([CheckoutRequestID |-> "ws_CO_1", ResultCode |-> 0,
                CallbackMetadata |-> [Item |-> ItemsObject]]) }

\* The payloads used where callbacks run next to /pay requests.
CorePayloads ==
    { EmptyObject,
      Envelope([CheckoutRequestID |-> "ws_CO_1", ResultCode |-> 0,
                ResultDesc |-> "ok",
                CallbackMetadata |-> [Item |-> ItemsFull]]) }

\* res.json({ ResultCode: 0, ResultDesc: "Success" })
SuccessAck == [ResultCode |-> 0, ResultDesc |-> "Success"]

\* Wire events of one callback, in the order the handler emits them: the
\* response to the gateway and the POST to `${APP_SERVER_URL}/mpesa/callback`.
AckEvent(t) == [kind |-> "response", at |-> t, status |-> 200,
                data |-> SuccessAck]
\* Variant of ForwardEvent that posts payload.Body instead of the payload.
ForwardEvent_BodyOnly(t, payload) ==
    [kind |-> "forward", at |-> t, status |-> 0,
     data |-> Field(payload, "Body")]

ForwardEvent(t, payload) == [kind |-> "forward", at |-> t, status |-> 0,
                             data |-> payload]

(* -------- src/unnamed/part_003 : parsing of the callback payload -------- *)
\* payload?.Body?.stkCallback || {}
StkCallback(payload) == Field(Field(payload, "Body"), "stkCallback")

\* resultCode === 0
ResultCodeIsZero(stk) == Has(stk, "ResultCode") /\ stk.ResultCode = 0

\* Variant of ItemsOf without the `|| []`: a missing Item is no array.
ItemsOf_NoDefault(stk) ==
    LET meta == Field(stk, "CallbackMetadata")
    IN  IF Has(meta, "Item") THEN meta.Item
        ELSE [kind |-> "object", elems |-> << >>]

\* stkCallback.CallbackMetadata?.Item || []
ItemsOf(stk) ==
    LET meta == Field(stk, "CallbackMetadata")
    IN  IF Has(meta, "Item") THEN meta.Item
        ELSE [kind |-> "list", elems |-> << >>]

\* items.find(i => i.Name === name)?.Value over the elements of an array:
\* the callback reads i.Name of each element in turn and throws a TypeError
\* on a null element met before a match.
RECURSIVE FindValue(_, _)
FindValue(elems, name) ==
    IF elems = << >> THEN [threw |-> FALSE, value |-> Unset]
    ELSE IF Head(elems).isNull THEN [threw |-> TRUE, value |-> Unset]
    ELSE IF Head(elems).Name = name
         THEN [threw |-> FALSE, value |-> Val(Head(elems).Value)]
    ELSE FindValue(Tail(elems), name)

NotExtracted == [threw |-> FALSE, amount |-> Unset, receipt |-> Unset,
                 phone |-> Unset]

\* The body of `if (resultCode === 0) { ... }`: items.find is not a function
\* when Item is not an array.
ExtractMetadata(stk) ==
    LET items == ItemsOf(stk)
        a == FindValue(items.elems, "Amount")
        r == FindValue(items.elems, "MpesaReceiptNumber")
        p == FindValue(items.elems, "PhoneNumber")
    IN  IF items.kind # "list" \/ a.threw \/ r.threw \/ p.threw
        THEN [threw |-> TRUE, amount |-> Unset, receipt |-> Unset,
              phone |-> Unset]
        ELSE [threw |-> FALSE, amount |-> a.value, receipt |-> r.value,
              phone |-> p.value]

\* Ways the awaited forward POST settles.
ForwardOutcomes == {"ok", "fail", "timeout"}

VARIABLES
    clock,        \* Date.now()
    ticks,        \* clock advances so far
    cbDraft,      \* which draft of the service handles each callback
    cbPc,         \* position of each /callback handler
    cbPayload,    \* req.body of each callback
    cbAt,         \* clock at which each callback was received
    cbWire,       \* what each /callback handler put on the network, in order
    cbOutcome,    \* how the forward of each callback settled
    cbExtracted,  \* metadata values read by the handler of part_003
    tokenCache,   \* const tokenCache = { token, expiry }
    payPc,        \* position of each /pay handler
    payReq,       \* req.body of each /pay request
    payNow,       \* `now` of the getAccessToken call a handler awaits
    paySentAt,    \* clock at which the awaited gateway call was issued
    payWire,      \* what each /pay handler put on the network, in order
    payDraft,     \* which draft of the service serves each request
    payPush       \* how the push (or status query) of each request settled

cbVars == <<cbDraft, cbPc, cbPayload, cbAt, cbWire, cbOutcome, cbExtracted>>
payVars == <<tokenCache, payPc, payReq, payNow, paySentAt, payWire, payDraft,
            payPush>>
vars == <<clock, ticks, cbDraft, cbPc, cbPayload, cbAt, cbWire, cbOutcome,
          cbExtracted, tokenCache, payPc, payReq, payNow, paySentAt, payWire,
          payDraft, payPush>>

Init ==
    /\ clock = 0
    /\ ticks = 0
    /\ cbDraft = [c \in CbIds |-> "none"]
    /\ cbPc = [c \in CbIds |-> "idle"]
    /\ cbPayload = [c \in CbIds |-> EmptyObject]
    /\ cbAt = [c \in CbIds |-> 0]
    /\ cbWire = [c \in CbIds |-> << >>]
    /\ cbOutcome = [c \in CbIds |-> "none"]
    /\ cbExtracted = [c \in CbIds |-> NotExtracted]
    /\ tokenCache = [token |-> NullToken, expiry |-> NullExpiry]
    /\ payPc = [p \in PayIds |-> "idle"]
    /\ payReq = [p \in PayIds |-> NoBody]
    /\ payNow = [p \in PayIds |-> 0]
    /\ paySentAt = [p \in PayIds |-> 0]
    /\ payWire = [p \in PayIds |-> << >>]
    /\ payDraft = [p \in PayIds |-> "none"]
    /\ payPush = [p \in PayIds |-> NoPush]

\* Time passes between two turns of the event loop.
Tick ==
    /\ ticks < MaxTicks
    /\ \E d \in ClockSteps : clock' = clock + d
    /\ ticks' = ticks + 1
    /\ UNCHANGED <<cbVars, payVars>>

\* An axios call issued at time t with budget timeoutMs may settle in each way
\* at the current time: axios rejects with a timeout once timeoutMs have passed
\* without a response, and settles otherwise only before that.
CanSettle(t, timeoutMs, outcome) ==
    IF outcome = "timeout" THEN clock - t >= timeoutMs
                           ELSE clock - t < timeoutMs

(* ------------------- src/server.js : POST /callback -------------------- *)
\* Variant of HF_Callback that issues the forward before it responds.
HF_Callback_ForwardFirst(c, payload) ==
    /\ cbPc[c] = "idle"
    /\ \A d \in CbIds : d < c => cbPc[d] # "idle"
    /\ cbDraft' = [cbDraft EXCEPT ![c] = "server.js"]
    /\ cbPayload' = [cbPayload EXCEPT ![c] = payload]
    /\ cbAt' = [cbAt EXCEPT ![c] = clock]
    /\ cbWire' = [cbWire EXCEPT ![c] =
                    << ForwardEvent(clock, payload), AckEvent(clock) >>]
    /\ cbPc' = [cbPc EXCEPT ![c] = "awaitForward"]
    /\ UNCHANGED <<clock, ticks, cbOutcome, cbExtracted, payVars>>

\* Variant of HF_Callback that forwards successful payments only.
HF_Callback_SuccessOnly(c, payload) ==
    LET forward == ResultCodeIsZero(StkCallback(payload))
    IN  /\ cbPc[c] = "idle"
        /\ \A d \in CbIds : d < c => cbPc[d] # "idle"
        /\ cbDraft' = [cbDraft EXCEPT ![c] = "server.js"]
        /\ cbPayload' = [cbPayload EXCEPT ![c] = payload]
        /\ cbAt' = [cbAt EXCEPT ![c] = clock]
        /\ cbWire' = [cbWire EXCEPT ![c] =
                        IF forward
                        THEN << AckEvent(clock), ForwardEvent(clock, payload) >>
                        ELSE << AckEvent(clock) >>]
        /\ cbPc' = [cbPc EXCEPT ![c] = IF forward THEN "awaitForward" ELSE "done"]
        /\ UNCHANGED <<clock, ticks, cbOutcome, cbExtracted, payVars>>

\* Entry of the handler up to `await axios.post(target, payload, ...)`.
HF_Callback(c, payload) ==
    /\ cbPc[c] = "idle"
    /\ \A d \in CbIds : d < c => cbPc[d] # "idle"
    /\ cbDraft' = [cbDraft EXCEPT ![c] = "server.js"]
    /\ cbPayload' = [cbPayload EXCEPT ![c] = payload]
    /\ cbAt' = [cbAt EXCEPT ![c] = clock]
    /\ cbWire' = [cbWire EXCEPT ![c] =
                    << AckEvent(clock), ForwardEvent(clock, payload) >>]
    /\ cbPc' = [cbPc EXCEPT ![c] = "awaitForward"]
    /\ UNCHANGED <<clock, ticks, cbOutcome, cbExtracted, payVars>>

\* Variant of HF_ForwardSettled that posts the payload again after a failure.
HF_ForwardSettled_Retry(c, outcome) ==
    /\ cbPc[c] = "awaitForward"
    /\ cbDraft[c] = "server.js"
    /\ CanSettle(cbAt[c], ForwardTimeoutMs, outcome)
    /\ cbOutcome' = [cbOutcome EXCEPT ![c] = outcome]
    /\ cbWire' = [cbWire EXCEPT ![c] =
                    IF outcome = "ok" THEN @
                    ELSE Append(@, ForwardEvent(clock, cbPayload[c]))]
    /\ cbPc' = [cbPc EXCEPT ![c] = "done"]
    /\ UNCHANGED <<clock, ticks, cbDraft, cbPayload, cbAt, cbExtracted, payVars>>

\* The awaited forward settles: success is logged, a rejection is caught and
\* logged; nothing is sent in either case.
HF_ForwardSettled(c, outcome) ==
    /\ cbPc[c] = "awaitForward"
    /\ cbDraft[c] = "server.js"
    /\ CanSettle(cbAt[c], ForwardTimeoutMs, outcome)
    /\ cbOutcome' = [cbOutcome EXCEPT ![c] = outcome]
    /\ cbPc' = [cbPc EXCEPT ![c] = "done"]
    /\ UNCHANGED <<clock, ticks, cbDraft, cbPayload, cbAt, cbWire, cbExtracted,
                   payVars>>

(* ---------------- src/unnamed/part_003 : POST /callback ----------------- *)
\* The response Express sends for a handler that fails.
ErrorResponse(t) == [kind |-> "response", at |-> t, status |-> 500,
                     data |-> [success |-> FALSE,
                               error |-> "Internal server error"]]

\* Variant of V2_Callback without the outer catch: a throw in the metadata
\* extraction reaches the error middleware.
V2_Callback_Uncaught(c, payload) ==
    LET stk == StkCallback(payload)
        ex == IF ResultCodeIsZero(stk) THEN ExtractMetadata(stk)
              ELSE NotExtracted
    IN  /\ cbPc[c] = "idle"
        /\ \A d \in CbIds : d < c => cbPc[d] # "idle"
        /\ cbDraft' = [cbDraft EXCEPT ![c] = "part_003"]
        /\ cbPayload' = [cbPayload EXCEPT ![c] = payload]
        /\ cbAt' = [cbAt EXCEPT ![c] = clock]
        /\ cbExtracted' = [cbExtracted EXCEPT ![c] = ex]
        /\ IF ex.threw
           THEN /\ cbWire' = [cbWire EXCEPT ![c] = << ErrorResponse(clock) >>]
                /\ cbPc' = [cbPc EXCEPT ![c] = "done"]
           ELSE /\ cbWire' = [cbWire EXCEPT ![c] =
                                << ForwardEvent(clock, payload) >>]
                /\ cbPc' = [cbPc EXCEPT ![c] = "awaitForward"]
        /\ UNCHANGED <<clock, ticks, cbOutcome, payVars>>

\* Entry of the handler: parse, extract metadata when ResultCode is 0, then
\* `await axios.post(...)`.  A throw in the extraction lands in the outer
\* catch, which acknowledges and ends the handler.
V2_Callback(c, payload) ==
    LET stk == StkCallback(payload)
        ex == IF ResultCodeIsZero(stk) THEN ExtractMetadata(stk)
              ELSE NotExtracted
    IN  /\ cbPc[c] = "idle"
        /\ \A d \in CbIds : d < c => cbPc[d] # "idle"
        /\ cbDraft' = [cbDraft EXCEPT ![c] = "part_003"]
        /\ cbPayload' = [cbPayload EXCEPT ![c] = payload]
        /\ cbAt' = [cbAt EXCEPT ![c] = clock]
        /\ cbExtracted' = [cbExtracted EXCEPT ![c] = ex]
        /\ IF ex.threw
           THEN /\ cbWire' = [cbWire EXCEPT ![c] = << AckEvent(clock) >>]
                /\ cbPc' = [cbPc EXCEPT ![c] = "done"]
           ELSE /\ cbWire' = [cbWire EXCEPT ![c] =
                                << ForwardEvent(clock, payload) >>]
                /\ cbPc' = [cbPc EXCEPT ![c] = "awaitForward"]
        /\ UNCHANGED <<clock, ticks, cbOutcome, payVars>>

\* Variant of V2_ForwardSettled without the inner catch: a rejected forward
\* ends the handler with an error response.
V2_ForwardSettled_Propagates(c, outcome) ==
    /\ cbPc[c] = "awaitForward"
    /\ cbDraft[c] = "part_003"
    /\ CanSettle(cbAt[c], ForwardTimeoutMs, outcome)
    /\ cbOutcome' = [cbOutcome EXCEPT ![c] = outcome]
    /\ cbWire' = [cbWire EXCEPT ![c] =
                    Append(@, IF outcome = "ok" THEN AckEvent(clock)
                              ELSE ErrorResponse(clock))]
    /\ cbPc' = [cbPc EXCEPT ![c] = "done"]
    /\ UNCHANGED <<clock, ticks, cbDraft, cbPayload, cbAt, cbExtracted, payVars>>

\* The awaited forward settles (a rejection is caught by the inner catch);
\* the handler then sends the acknowledgement.
V2_ForwardSettled(c, outcome) ==
    /\ cbPc[c] = "awaitForward"
    /\ cbDraft[c] = "part_003"
    /\ CanSettle(cbAt[c], ForwardTimeoutMs, outcome)
    /\ cbOutcome' = [cbOutcome EXCEPT ![c] = outcome]
    /\ cbWire' = [cbWire EXCEPT ![c] = Append(@, AckEvent(clock))]
    /\ cbPc' = [cbPc EXCEPT ![c] = "done"]
    /\ UNCHANGED <<clock, ticks, cbDraft, cbPayload, cbAt, cbExtracted, payVars>>

(* ---------------------- src/server.js : POST /pay ----------------------- *)
\* Wire events of one /pay request: the GET to the authentication endpoint,
\* the POST to the push endpoint, the response to the caller.
AuthCall == [kind |-> "auth"]
PushCall(token, payload) == [kind |-> "push", token |-> token,
                             payload |-> payload]
PayResponse(status, body) == [kind |-> "response", status |-> status,
                              body |-> body]

MissingFieldBody == [success |-> FALSE,
                     error |-> "Phone and amount are required."]
AmountTooLowBody == [success |-> FALSE, error |-> "Amount must be at least 1."]
\* Variant of FailedBody without the success flag.
FailedBody_NoFlag(detail) == [error |-> "STK push failed.", detail |-> detail]

FailedBody(detail) == [success |-> FALSE, error |-> "STK push failed.",
                       detail |-> detail]
SuccessBody(data) == [success |-> TRUE,
                      CheckoutRequestID |-> Field(data, "CheckoutRequestID"),
                      MerchantRequestID |-> Field(data, "MerchantRequestID"),
                      message |-> "STK Push sent successfully."]

\* generateTimestamp(): the 14 digits YYYYMMDDHHMMSS name the second of t.
GenerateTimestamp(t) == t \div SecondMs

\* generatePassword(timestamp): base64 of SHORTCODE + PASSKEY + timestamp.
GeneratePassword(timestamp) ==
    [shortCode |-> "SHORTCODE", passKey |-> "PASSKEY", timestamp |-> timestamp]

\* const { description = "Vumbua Deposit" } = req.body: the default stands in
\* for undefined only.
DefaultDescription ==
    JsStr(<< "V", "u", "m", "b", "u", "a", " ", "D", "e", "p", "o", "s", "i",
             "t" >>)

DescriptionOf(body) ==
    IF body.description.t = "undefined" THEN DefaultDescription
    ELSE body.description

\* description.substring(0, n): a TypeError when description is no string.
SubstringThrows(body) == DescriptionOf(body).t # "string"

Substring(chars, n) ==
    SubSeq(chars, 1, IF Len(chars) < n THEN Len(chars) ELSE n)

\* Variant of MpesaPayload that reads the clock again, a second later, for
\* the Timestamp field.
MpesaPayload_TwoClockReads(body, t) ==
    [BusinessShortCode |-> "SHORTCODE",
     Password |-> GeneratePassword(GenerateTimestamp(t)),
     Timestamp |-> GenerateTimestamp(t + SecondMs),
     TransactionType |-> "CustomerPayBillOnline",
     Amount |-> MathFloor(ParseFloat(body.amount.chars)),
     PartyA |-> DigitsOnly(body.phone.chars),
     PartyB |-> "SHORTCODE",
     PhoneNumber |-> DigitsOnly(body.phone.chars),
     CallBackURL |-> "CALLBACK_URL",
     AccountReference |-> Substring(DescriptionOf(body).chars, 12),
     TransactionDesc |-> Substring(DescriptionOf(body).chars, 13)]

\* mpesaPayload built by the handler at time t.
MpesaPayload(body, t) ==
    LET timestamp == GenerateTimestamp(t)
        phoneStr == DigitsOnly(body.phone.chars)
        amountNum == MathFloor(ParseFloat(body.amount.chars))
    IN  [BusinessShortCode |-> "SHORTCODE",
         Password |-> GeneratePassword(timestamp),
         Timestamp |-> timestamp,
         TransactionType |-> "CustomerPayBillOnline",
         Amount |-> amountNum,
         PartyA |-> phoneStr,
         PartyB |-> "SHORTCODE",
         PhoneNumber |-> phoneStr,
         CallBackURL |-> "CALLBACK_URL",
         AccountReference |-> Substring(DescriptionOf(body).chars, 12),
         TransactionDesc |-> Substring(DescriptionOf(body).chars, 13)]

\* if (!phone || !amount)
MissingField_AmountOnly(body) == ~Truthy(body.amount)

MissingField(body) == ~Truthy(body.phone) \/ ~Truthy(body.amount)

\* if (amountNum < 1): a comparison with NaN is false.
AmountTooLow_Negative(amountNum) == ~amountNum.nan /\ amountNum.v < 0

AmountTooLow(amountNum) == ~amountNum.nan /\ amountNum.v < 1

\* getAccessToken: if (tokenCache.token && tokenCache.expiry > now)
CacheHit_IgnoresExpiry(now) == tokenCache.token.t = "string"

\* Variant of CacheHit with the comparison turned round.
CacheHit_Reversed(now) ==
    tokenCache.token.t = "string" /\ tokenCache.expiry < now

CacheHit(now) == tokenCache.token.t = "string" /\ tokenCache.expiry > now

\* Variant of StoreToken that writes the token and leaves the expiry of the
\* entry it replaces.
StoreToken_KeepExpiry(now, access_token) ==
    [token |-> access_token, expiry |-> tokenCache.expiry]

\* getAccessToken: tokenCache.token = response.data.access_token;
\*                 tokenCache.expiry = now + 3590 * 1000
StoreToken(now, access_token) ==
    [token |-> access_token, expiry |-> now + TokenLifetimeMs]

\* Ways the authentication GET and the push POST settle.
AuthResponses == {"token", "noToken"}
GatewayErrors == {"network", "non2xx", "timeout"}
PushResponses ==
    { [ResponseCode |-> "0", CheckoutRequestID |-> "ws_CO_1",
       MerchantRequestID |-> "mr_1"],
      [ResponseCode |-> "1"] }

\* What the handler does in the turn in which it has the token: it builds
\* mpesaPayload and sends the push, or the TypeError of description.substring
\* takes it to its catch.
SendPush(body, token, t) ==
    IF SubstringThrows(body)
    THEN [pc |-> "done", event |-> PayResponse(500, FailedBody("TypeError"))]
    ELSE [pc |-> "awaitPush", event |-> PushCall(token, MpesaPayload(body, t))]

\* One draft is deployed: every request of a behaviour is served by it.
Deployed(draft) == \A q \in PayIds : payDraft[q] \in {"none", draft}

\* Variant of HF_Pay that waits for the gateway calls of the other requests.
HF_Pay_Serialized(p, body) ==
    LET amountNum == MathFloor(ParseFloat(body.amount.chars))
        step ==
            IF MissingField(body)
            THEN [pc |-> "done", now |-> 0,
                  wire |-> << PayResponse(400, MissingFieldBody) >>]
            ELSE IF AmountTooLow(amountNum)
            THEN [pc |-> "done", now |-> 0,
                  wire |-> << PayResponse(400, AmountTooLowBody) >>]
            ELSE IF CacheHit(clock)
            THEN [pc |-> SendPush(body, tokenCache.token, clock).pc,
                  now |-> 0,
                  wire |-> << SendPush(body, tokenCache.token, clock).event >>]
            ELSE [pc |-> "awaitAuth", now |-> clock, wire |-> << AuthCall >>]
    IN  /\ payPc[p] = "idle"
        /\ \A q \in PayIds : payPc[q] \notin {"awaitAuth", "awaitPush"}
        /\ \A q \in PayIds : q < p => payPc[q] # "idle"
        /\ Deployed("server.js")
        /\ payReq' = [payReq EXCEPT ![p] = body]
        /\ payPc' = [payPc EXCEPT ![p] = step.pc]
        /\ payNow' = [payNow EXCEPT ![p] = step.now]
        /\ paySentAt' = [paySentAt EXCEPT ![p] =
                           IF step.pc = "done" THEN 0 ELSE clock]
        /\ payWire' = [payWire EXCEPT ![p] = step.wire]
        /\ payDraft' = [payDraft EXCEPT ![p] = "server.js"]
        /\ UNCHANGED <<clock, ticks, cbVars, tokenCache, payPush>>

\* Entry of the handler: validation, then getAccessToken; on a cache hit the
\* handler goes on to build and send the push in the same turn.
HF_Pay(p, body) ==
    LET amountNum == MathFloor(ParseFloat(body.amount.chars))
        step ==
            IF MissingField(body)
            THEN [pc |-> "done", now |-> 0,
                  wire |-> << PayResponse(400, MissingFieldBody) >>]
            ELSE IF AmountTooLow(amountNum)
            THEN [pc |-> "done", now |-> 0,
                  wire |-> << PayResponse(400, AmountTooLowBody) >>]
            ELSE IF CacheHit(clock)
            THEN [pc |-> SendPush(body, tokenCache.token, clock).pc,
                  now |-> 0,
                  wire |-> << SendPush(body, tokenCache.token, clock).event >>]
            ELSE [pc |-> "awaitAuth", now |-> clock, wire |-> << AuthCall >>]
    IN  /\ payPc[p] = "idle"
        /\ \A q \in PayIds : q < p => payPc[q] # "idle"
        /\ Deployed("server.js")
        /\ payReq' = [payReq EXCEPT ![p] = body]
        /\ payPc' = [payPc EXCEPT ![p] = step.pc]
        /\ payNow' = [payNow EXCEPT ![p] = step.now]
        /\ paySentAt' = [paySentAt EXCEPT ![p] =
                           IF step.pc = "done" THEN 0 ELSE clock]
        /\ payWire' = [payWire EXCEPT ![p] = step.wire]
        /\ payDraft' = [payDraft EXCEPT ![p] = "server.js"]
        /\ UNCHANGED <<clock, ticks, cbVars, tokenCache, payPush>>

\* The authentication GET answers 2xx: getAccessToken stores and returns the
\* token, and the handler builds and sends the push in the same turn.
HF_AuthResolved(p, res) ==
    LET access_token == IF res = "token" THEN Token(p) ELSE UndefinedToken
        next == SendPush(payReq[p], access_token, clock)
    IN  /\ payDraft[p] = "server.js"
        /\ payPc[p] = "awaitAuth"
        /\ CanSettle(paySentAt[p], AuthTimeoutMs, "ok")
        /\ tokenCache' = StoreToken(payNow[p], access_token)
        /\ payWire' = [payWire EXCEPT ![p] = Append(@, next.event)]
        /\ payPc' = [payPc EXCEPT ![p] = next.pc]
        /\ payNow' = [payNow EXCEPT ![p] = 0]
        /\ paySentAt' = [paySentAt EXCEPT ![p] =
                           IF next.pc = "done" THEN 0 ELSE clock]
        /\ UNCHANGED <<clock, ticks, cbVars, payReq, payDraft, payPush>>

\* Variant of HF_AuthRejected that stores the failed fetch in the cache as if
\* it were a token.
HF_AuthRejected_Cached(p, err) ==
    /\ payDraft[p] = "server.js"
    /\ payPc[p] = "awaitAuth"
    /\ CanSettle(paySentAt[p], AuthTimeoutMs, err)
    /\ payWire' = [payWire EXCEPT ![p] =
                     Append(@, PayResponse(500, FailedBody(err)))]
    /\ payPc' = [payPc EXCEPT ![p] = "done"]
    /\ payNow' = [payNow EXCEPT ![p] = 0]
    /\ paySentAt' = [paySentAt EXCEPT ![p] = 0]
    /\ tokenCache' = StoreToken(payNow[p], Token(0))
    /\ UNCHANGED <<clock, ticks, cbVars, payReq, payDraft, payPush>>

\* The authentication GET rejects: getAccessToken throws before it touches the
\* cache and the catch of the handler responds 500.
HF_AuthRejected(p, err) ==
    /\ payDraft[p] = "server.js"
    /\ payPc[p] = "awaitAuth"
    /\ CanSettle(paySentAt[p], AuthTimeoutMs, err)
    /\ payWire' = [payWire EXCEPT ![p] =
                     Append(@, PayResponse(500, FailedBody(err)))]
    /\ payPc' = [payPc EXCEPT ![p] = "done"]
    /\ payNow' = [payNow EXCEPT ![p] = 0]
    /\ paySentAt' = [paySentAt EXCEPT ![p] = 0]
    /\ UNCHANGED <<clock, ticks, cbVars, payReq, tokenCache, payDraft, payPush>>

\* The push POST answers 2xx: the handler responds with a success body.
HF_PushResolved(p, data) ==
    /\ payDraft[p] = "server.js"
    /\ payPc[p] = "awaitPush"
    /\ CanSettle(paySentAt[p], PushTimeoutMs, "ok")
    /\ payWire' = [payWire EXCEPT ![p] =
                     Append(@, PayResponse(200, SuccessBody(data)))]
    /\ payPc' = [payPc EXCEPT ![p] = "done"]
    /\ paySentAt' = [paySentAt EXCEPT ![p] = 0]
    /\ payPush' = [payPush EXCEPT ![p] = Answered(data)]
    /\ UNCHANGED <<clock, ticks, cbVars, payReq, payNow, tokenCache, payDraft>>

\* The push POST rejects: the catch of the handler responds 500.
HF_PushRejected(p, err) ==
    /\ payDraft[p] = "server.js"
    /\ payPc[p] = "awaitPush"
    /\ CanSettle(paySentAt[p], PushTimeoutMs, err)
    /\ payWire' = [payWire EXCEPT ![p] =
                     Append(@, PayResponse(500, FailedBody(err)))]
    /\ payPc' = [payPc EXCEPT ![p] = "done"]
    /\ paySentAt' = [paySentAt EXCEPT ![p] = 0]
    /\ payPush' = [payPush EXCEPT ![p] = Rejected(err)]
    /\ UNCHANGED <<clock, ticks, cbVars, payReq, payNow, tokenCache, payDraft>>

(* ------------------- src/unnamed/part_003 : POST /pay ------------------- *)
\* An axios rejection as the catch of part_003 reads it: err.response.status
\* is the status of a non-2xx answer; no err.response (status 0) when no
\* answer came.
GatewayRejections ==
    { [kind |-> "network", status |-> 0],
      [kind |-> "timeout", status |-> 0],
      [kind |-> "non2xx", status |-> 400],
      [kind |-> "non2xx", status |-> 503] }

\* /^254[17]\d{8}$/.test(phoneStr)
ValidPhone(phoneStr) ==
    /\ Len(phoneStr) = 12
    /\ SubSeq(phoneStr, 1, 3) = << "2", "5", "4" >>
    /\ phoneStr[4] \in {"1", "7"}
    /\ \A i \in 5..12 : IsDigit(phoneStr[i])

\* if (isNaN(amountNum) || amountNum < 1)
V2_AmountInvalid(amountNum) == amountNum.nan \/ amountNum.v < 1

InvalidPhoneBody ==
    [success |-> FALSE,
     error |-> "Invalid phone. Use format: 2547XXXXXXXX or 2541XXXXXXXX"]

\* if (data.ResponseCode !== "0") return res.status(502).json({...})
V2_RejectedBody(data) ==
    [success |-> FALSE,
     error |-> IF Has(data, "ResponseDescription")
               THEN data.ResponseDescription ELSE "STK push rejected",
     data |-> data]

V2_SuccessBody(data, t) ==
    [success |-> TRUE,
     message |-> "STK Push sent. Check your phone.",
     CheckoutRequestID |-> Field(data, "CheckoutRequestID"),
     MerchantRequestID |-> Field(data, "MerchantRequestID"),
     checkoutId |-> Field(data, "CheckoutRequestID"),
     timestamp |-> t]

\* catch (err): status = err.response?.status || 500
V2_ErrorStatus(err) == IF err.status # 0 THEN err.status ELSE 500

V2_ErrorBody(err) ==
    [success |-> FALSE, error |-> err.kind,
     details |-> IF err.status # 0 THEN "err.response.data" ELSE "undefined"]

\* A phone that passes the pattern of part_003.
KenyanMobile ==
    JsStr(<< "2", "5", "4", "7", "1", "2", "3", "4", "5", "6", "7", "8" >>)

\* The bodies sent to part_003: accepted, phone of 4 digits, amount not a
\* number.
V2Bodies ==
    { Body(KenyanMobile, JsStr(<< "4", "9", ".", "9" >>)),
      Body(JsStr(<< "+", "2", "5", "4", " ", "7" >>),
           JsStr(<< "4", "9", ".", "9" >>)),
      Body(KenyanMobile, JsStr(<< "a", "b", "c" >>)) }

\* The turn of part_003 in which the handler has the token: the push, or the
\* TypeError of description.substring caught by the handler.
V2_SendPush(body, token, t) ==
    LET err == [kind |-> "TypeError", status |-> 0]
    IN  IF SubstringThrows(body)
        THEN [pc |-> "done",
              event |-> PayResponse(V2_ErrorStatus(err), V2_ErrorBody(err))]
        ELSE [pc |-> "awaitPush",
              event |-> PushCall(token, MpesaPayload(body, t))]

\* Entry of the handler of part_003: validation, then getAccessToken (the
\* same cache test and store as in server.js) and, on a cache hit, the push.
V2_Pay(p, body) ==
    LET phoneStr == DigitsOnly(body.phone.chars)
        amountNum == MathFloor(ParseFloat(body.amount.chars))
        step ==
            IF MissingField(body)
            THEN [pc |-> "done", now |-> 0,
                  wire |-> << PayResponse(400, MissingFieldBody) >>]
            ELSE IF ~ValidPhone(phoneStr)
            THEN [pc |-> "done", now |-> 0,
                  wire |-> << PayResponse(400, InvalidPhoneBody) >>]
            ELSE IF V2_AmountInvalid(amountNum)
            THEN [pc |-> "done", now |-> 0,
                  wire |-> << PayResponse(400, AmountTooLowBody) >>]
            ELSE IF CacheHit(clock)
            THEN [pc |-> V2_SendPush(body, tokenCache.token, clock).pc,
                  now |-> 0,
                  wire |-> << V2_SendPush(body, tokenCache.token,
                                          clock).event >>]
            ELSE [pc |-> "awaitAuth", now |-> clock, wire |-> << AuthCall >>]
    IN  /\ payPc[p] = "idle"
        /\ \A q \in PayIds : q < p => payPc[q] # "idle"
        /\ Deployed("part_003")
        /\ payReq' = [payReq EXCEPT ![p] = body]
        /\ payPc' = [payPc EXCEPT ![p] = step.pc]
        /\ payNow' = [payNow EXCEPT ![p] = step.now]
        /\ paySentAt' = [paySentAt EXCEPT ![p] =
                           IF step.pc = "done" THEN 0 ELSE clock]
        /\ payWire' = [payWire EXCEPT ![p] = step.wire]
        /\ payDraft' = [payDraft EXCEPT ![p] = "part_003"]
        /\ UNCHANGED <<clock, ticks, cbVars, tokenCache, payPush>>

\* The authentication GET answers 2xx: the token is stored and the push sent.
V2_AuthResolved(p, res) ==
    LET access_token == IF res = "token" THEN Token(p) ELSE UndefinedToken
        next == V2_SendPush(payReq[p], access_token, clock)
    IN  /\ payDraft[p] = "part_003"
        /\ payPc[p] = "awaitAuth"
        /\ Route(payReq[p]) = "/pay"
        /\ CanSettle(paySentAt[p], AuthTimeoutMs, "ok")
        /\ tokenCache' = StoreToken(payNow[p], access_token)
        /\ payWire' = [payWire EXCEPT ![p] = Append(@, next.event)]
        /\ payPc' = [payPc EXCEPT ![p] = next.pc]
        /\ payNow' = [payNow EXCEPT ![p] = 0]
        /\ paySentAt' = [paySentAt EXCEPT ![p] =
                           IF next.pc = "done" THEN 0 ELSE clock]
        /\ UNCHANGED <<clock, ticks, cbVars, payReq, payDraft, payPush>>

\* The authentication GET rejects: getAccessToken throws and the catch of the
\* handler responds with the status of the gateway's answer, or 500.
V2_AuthRejected(p, err) ==
    /\ payDraft[p] = "part_003"
    /\ payPc[p] = "awaitAuth"
    /\ Route(payReq[p]) = "/pay"
    /\ CanSettle(paySentAt[p], AuthTimeoutMs, err.kind)
    /\ payWire' = [payWire EXCEPT ![p] =
                     Append(@, PayResponse(V2_ErrorStatus(err),
                                           V2_ErrorBody(err)))]
    /\ payPc' = [payPc EXCEPT ![p] = "done"]
    /\ payNow' = [payNow EXCEPT ![p] = 0]
    /\ paySentAt' = [paySentAt EXCEPT ![p] = 0]
    /\ UNCHANGED <<clock, ticks, cbVars, payReq, tokenCache, payDraft, payPush>>

\* The push POST answers 2xx: 502 unless data.ResponseCode is "0".
V2_PushResolved(p, data) ==
    /\ payDraft[p] = "part_003"
    /\ payPc[p] = "awaitPush"
    /\ CanSettle(paySentAt[p], V2PushTimeoutMs, "ok")
    /\ payWire' = [payWire EXCEPT ![p] =
                     Append(@, IF Field(data, "ResponseCode") # "0"
                               THEN PayResponse(502, V2_RejectedBody(data))
                               ELSE PayResponse(200,
                                                V2_SuccessBody(data, clock)))]
    /\ payPc' = [payPc EXCEPT ![p] = "done"]
    /\ paySentAt' = [paySentAt EXCEPT ![p] = 0]
    /\ payPush' = [payPush EXCEPT ![p] = Answered(data)]
    /\ UNCHANGED <<clock, ticks, cbVars, payReq, payNow, tokenCache, payDraft>>

\* The push POST rejects: the catch of the handler responds.
V2_PushRejected(p, err) ==
    /\ payDraft[p] = "part_003"
    /\ payPc[p] = "awaitPush"
    /\ CanSettle(paySentAt[p], V2PushTimeoutMs, err.kind)
    /\ payWire' = [payWire EXCEPT ![p] =
                     Append(@, PayResponse(V2_ErrorStatus(err),
                                           V2_ErrorBody(err)))]
    /\ payPc' = [payPc EXCEPT ![p] = "done"]
    /\ paySentAt' = [paySentAt EXCEPT ![p] = 0]
    /\ payPush' = [payPush EXCEPT ![p] = Rejected(err.kind)]
    /\ UNCHANGED <<clock, ticks, cbVars, payReq, payNow, tokenCache, payDraft>>

(* ------------ src/unnamed/part_002 : GET /status/:checkoutId ------------ *)
\* req.params.checkoutId
StatusReq(checkoutId) == [route |-> "/status", checkoutId |-> checkoutId]
CheckoutIds == {"ws_CO_1", "ws_CO_2"}

\* getAccessToken of part_002: tokenCache.token = response.data.access_token;
\*                             tokenCache.expiry = now + (3599 * 1000)
R2_StoreToken(now, access_token) ==
    [token |-> access_token, expiry |-> now + R2TokenLifetimeMs]

\* The body of the status query: Password is built from the `new Date()` read
\* at t1, Timestamp from a second `new Date()` read at t2.
StatusQuery(checkoutId, t1, t2) ==
    [BusinessShortCode |-> "SHORTCODE",
     Password |-> GeneratePassword(GenerateTimestamp(t1)),
     Timestamp |-> GenerateTimestamp(t2),
     CheckoutRequestID |-> checkoutId]

StatusCall(token, payload) == [kind |-> "status", token |-> token,
                               payload |-> payload]

\* res.status(500).json({ error: error.message })
R2_ErrorBody(message) == [error |-> message]

\* What the clock may advance by between the two `new Date()` of one turn.
InTurnSteps == {0, SecondMs}

\* The status query has no timeout: it answers, or fails without one.
R2StatusErrors == {"network", "non2xx"}
StatusResponses ==
    { [ResponseCode |-> "0", ResultCode |-> "0",
       CheckoutRequestID |-> "ws_CO_1"],
      [ResponseCode |-> "0", ResultCode |-> "1032",
       CheckoutRequestID |-> "ws_CO_1"] }

\* Entry of the handler: getAccessToken; on a cache hit the handler goes on to
\* build and send the status query in the same turn, during which the clock
\* advances by d.
R2_Status(p, checkoutId, d) ==
    /\ payPc[p] = "idle"
    /\ \A q \in PayIds : q < p => payPc[q] # "idle"
    /\ Deployed("part_002")
    /\ payReq' = [payReq EXCEPT ![p] = StatusReq(checkoutId)]
    /\ payDraft' = [payDraft EXCEPT ![p] = "part_002"]
    /\ IF CacheHit(clock)
       THEN /\ d > 0 => ticks < MaxTicks
            /\ clock' = clock + d
            /\ ticks' = IF d > 0 THEN ticks + 1 ELSE ticks
            /\ payPc' = [payPc EXCEPT ![p] = "awaitStatus"]
            /\ payNow' = [payNow EXCEPT ![p] = 0]
            /\ paySentAt' = [paySentAt EXCEPT ![p] = clock']
            /\ payWire' = [payWire EXCEPT ![p] =
                             << StatusCall(tokenCache.token,
                                           StatusQuery(checkoutId, clock,
                                                       clock + d)) >>]
       ELSE /\ d = 0
            /\ payPc' = [payPc EXCEPT ![p] = "awaitAuth"]
            /\ payNow' = [payNow EXCEPT ![p] = clock]
            /\ paySentAt' = [paySentAt EXCEPT ![p] = clock]
            /\ payWire' = [payWire EXCEPT ![p] = << AuthCall >>]
            /\ UNCHANGED <<clock, ticks>>
    /\ UNCHANGED <<cbVars, tokenCache, payPush>>

\* The authentication GET answers 2xx: getAccessToken stores and returns the
\* token, and the handler builds and sends the status query in the same turn.
R2_StatusAuthResolved(p, res, d) ==
    LET access_token == IF res = "token" THEN Token(p) ELSE UndefinedToken
    IN  /\ payDraft[p] = "part_002"
        /\ payPc[p] = "awaitAuth"
        /\ Route(payReq[p]) = "/status"
        /\ CanSettle(paySentAt[p], AuthTimeoutMs, "ok")
        /\ d > 0 => ticks < MaxTicks
        /\ clock' = clock + d
        /\ ticks' = IF d > 0 THEN ticks + 1 ELSE ticks
        /\ tokenCache' = R2_StoreToken(payNow[p], access_token)
        /\ payWire' = [payWire EXCEPT ![p] =
                         Append(@, StatusCall(tokenCache'.token,
                                              StatusQuery(payReq[p].checkoutId,
                                                          clock, clock + d)))]
        /\ payPc' = [payPc EXCEPT ![p] = "awaitStatus"]
        /\ payNow' = [payNow EXCEPT ![p] = 0]
        /\ paySentAt' = [paySentAt EXCEPT ![p] = clock']
        /\ UNCHANGED <<cbVars, payReq, payDraft, payPush>>

\* The authentication GET rejects: getAccessToken rethrows
\* Error('Failed to get access token') and the handler responds 500.
R2_StatusAuthRejected(p, err) ==
    /\ payDraft[p] = "part_002"
    /\ payPc[p] = "awaitAuth"
    /\ Route(payReq[p]) = "/status"
    /\ CanSettle(paySentAt[p], AuthTimeoutMs, err)
    /\ payWire' = [payWire EXCEPT ![p] =
                     Append(@, PayResponse(500,
                         R2_ErrorBody("Failed to get access token")))]
    /\ payPc' = [payPc EXCEPT ![p] = "done"]
    /\ payNow' = [payNow EXCEPT ![p] = 0]
    /\ paySentAt' = [paySentAt EXCEPT ![p] = 0]
    /\ UNCHANGED <<clock, ticks, cbVars, payReq, tokenCache, payDraft, payPush>>

\* The status query answers 2xx: res.json(response.data).
R2_StatusResolved(p, data) ==
    /\ payDraft[p] = "part_002"
    /\ payPc[p] = "awaitStatus"
    /\ payWire' = [payWire EXCEPT ![p] = Append(@, PayResponse(200, data))]
    /\ payPc' = [payPc EXCEPT ![p] = "done"]
    /\ paySentAt' = [paySentAt EXCEPT ![p] = 0]
    /\ payPush' = [payPush EXCEPT ![p] = Answered(data)]
    /\ UNCHANGED <<clock, ticks, cbVars, payReq, payNow, tokenCache, payDraft>>

\* The status query rejects: the catch of the handler responds 500.
R2_StatusRejected(p, err) ==
    /\ payDraft[p] = "part_002"
    /\ payPc[p] = "awaitStatus"
    /\ payWire' = [payWire EXCEPT ![p] =
                     Append(@, PayResponse(500, R2_ErrorBody(err)))]
    /\ payPc' = [payPc EXCEPT ![p] = "done"]
    /\ paySentAt' = [paySentAt EXCEPT ![p] = 0]
    /\ payPush' = [payPush EXCEPT ![p] = Rejected(err)]
    /\ UNCHANGED <<clock, ticks, cbVars, payReq, payNow, tokenCache, payDraft>>

(* ------------ src/unnamed/part_003 : GET /status/:checkoutId ------------ *)
\* The body of the status query of part_003: one generateTimestamp() at t
\* feeds Password and Timestamp.
V2_StatusQuery(checkoutId, t) ==
    [BusinessShortCode |-> "SHORTCODE",
     Password |-> GeneratePassword(GenerateTimestamp(t)),
     Timestamp |-> GenerateTimestamp(t),
     CheckoutRequestID |-> checkoutId]

\* Entry of the handler: getAccessToken and, on a cache hit, the query.
V2_Status(p, checkoutId) ==
    LET step ==
            IF CacheHit(clock)
            THEN [pc |-> "awaitStatus", now |-> 0,
                  wire |-> << StatusCall(tokenCache.token,
                                         V2_StatusQuery(checkoutId, clock)) >>]
            ELSE [pc |-> "awaitAuth", now |-> clock, wire |-> << AuthCall >>]
    IN  /\ payPc[p] = "idle"
        /\ \A q \in PayIds : q < p => payPc[q] # "idle"
        /\ Deployed("part_003")
        /\ payReq' = [payReq EXCEPT ![p] = StatusReq(checkoutId)]
        /\ payPc' = [payPc EXCEPT ![p] = step.pc]
        /\ payNow' = [payNow EXCEPT ![p] = step.now]
        /\ paySentAt' = [paySentAt EXCEPT ![p] = clock]
        /\ payWire' = [payWire EXCEPT ![p] = step.wire]
        /\ payDraft' = [payDraft EXCEPT ![p] = "part_003"]
        /\ UNCHANGED <<clock, ticks, cbVars, tokenCache, payPush>>

\* The authentication GET answers 2xx: the token is stored and the query sent.
V2_StatusAuthResolved(p, res) ==
    LET access_token == IF res = "token" THEN Token(p) ELSE UndefinedToken
    IN  /\ payDraft[p] = "part_003"
        /\ payPc[p] = "awaitAuth"
        /\ Route(payReq[p]) = "/status"
        /\ CanSettle(paySentAt[p], AuthTimeoutMs, "ok")
        /\ tokenCache' = StoreToken(payNow[p], access_token)
        /\ payWire' = [payWire EXCEPT ![p] =
                         Append(@, StatusCall(access_token,
                                              V2_StatusQuery(
                                                  payReq[p].checkoutId,
                                                  clock)))]
        /\ payPc' = [payPc EXCEPT ![p] = "awaitStatus"]
        /\ payNow' = [payNow EXCEPT ![p] = 0]
        /\ paySentAt' = [paySentAt EXCEPT ![p] = clock]
        /\ UNCHANGED <<clock, ticks, cbVars, payReq, payDraft, payPush>>

\* The authentication GET rejects: the catch of the handler responds.
V2_StatusAuthRejected(p, err) ==
    /\ payDraft[p] = "part_003"
    /\ payPc[p] = "awaitAuth"
    /\ Route(payReq[p]) = "/status"
    /\ CanSettle(paySentAt[p], AuthTimeoutMs, err.kind)
    /\ payWire' = [payWire EXCEPT ![p] =
                     Append(@, PayResponse(V2_ErrorStatus(err),
                                           V2_ErrorBody(err)))]
    /\ payPc' = [payPc EXCEPT ![p] = "done"]
    /\ payNow' = [payNow EXCEPT ![p] = 0]
    /\ paySentAt' = [paySentAt EXCEPT ![p] = 0]
    /\ UNCHANGED <<clock, ticks, cbVars, payReq, tokenCache, payDraft, payPush>>

\* Variant of V2_StatusResolved that wraps the gateway's body.
V2_StatusResolved_Wrapped(p, data) ==
    /\ payDraft[p] = "part_003"
    /\ payPc[p] = "awaitStatus"
    /\ CanSettle(paySentAt[p], V2StatusTimeoutMs, "ok")
    /\ payWire' = [payWire EXCEPT ![p] =
                     Append(@, PayResponse(200, [success |-> TRUE,
                                                 data |-> data]))]
    /\ payPc' = [payPc EXCEPT ![p] = "done"]
    /\ paySentAt' = [paySentAt EXCEPT ![p] = 0]
    /\ payPush' = [payPush EXCEPT ![p] = Answered(data)]
    /\ UNCHANGED <<clock, ticks, cbVars, payReq, payNow, tokenCache, payDraft>>

\* The status query answers 2xx: res.json(response.data).
V2_StatusResolved(p, data) ==
    /\ payDraft[p] = "part_003"
    /\ payPc[p] = "awaitStatus"
    /\ CanSettle(paySentAt[p], V2StatusTimeoutMs, "ok")
    /\ payWire' = [payWire EXCEPT ![p] = Append(@, PayResponse(200, data))]
    /\ payPc' = [payPc EXCEPT ![p] = "done"]
    /\ paySentAt' = [paySentAt EXCEPT ![p] = 0]
    /\ payPush' = [payPush EXCEPT ![p] = Answered(data)]
    /\ UNCHANGED <<clock, ticks, cbVars, payReq, payNow, tokenCache, payDraft>>

\* The status query rejects: the catch of the handler responds.
V2_StatusRejected(p, err) ==
    /\ payDraft[p] = "part_003"
    /\ payPc[p] = "awaitStatus"
    /\ CanSettle(paySentAt[p], V2StatusTimeoutMs, err.kind)
    /\ payWire' = [payWire EXCEPT ![p] =
                     Append(@, PayResponse(V2_ErrorStatus(err),
                                           V2_ErrorBody(err)))]
    /\ payPc' = [payPc EXCEPT ![p] = "done"]
    /\ paySentAt' = [paySentAt EXCEPT ![p] = 0]
    /\ payPush' = [payPush EXCEPT ![p] = Rejected(err.kind)]
    /\ UNCHANGED <<clock, ticks, cbVars, payReq, payNow, tokenCache, payDraft>>

(* ----------------------- GET /token: shared parts --------------------- *)
TokenReq == [route |-> "/token"]

\* res.json({ access_token: token, expires_in: 3599, token_type: "Bearer" })
TokenBody(token) ==
    [access_token |-> token, expires_in |-> 3599, token_type |-> "Bearer"]

\* part_003: res.status(500).json({ success: false, error: "Failed to get token" })
V2_TokenErrorBody == [success |-> FALSE, error |-> "Failed to get token"]

(* ------------------ src/unnamed/part_003 : GET /token ------------------ *)
\* Entry of the handler: getAccessToken; on a cache hit the response.
V2_Token(p) ==
    LET step ==
            IF CacheHit(clock)
            THEN [pc |-> "done", now |-> 0,
                  wire |-> << PayResponse(200, TokenBody(tokenCache.token)) >>]
            ELSE [pc |-> "awaitAuth", now |-> clock, wire |-> << AuthCall >>]
    IN  /\ payPc[p] = "idle"
        /\ \A q \in PayIds : q < p => payPc[q] # "idle"
        /\ Deployed("part_003")
        /\ payReq' = [payReq EXCEPT ![p] = TokenReq]
        /\ payPc' = [payPc EXCEPT ![p] = step.pc]
        /\ payNow' = [payNow EXCEPT ![p] = step.now]
        /\ paySentAt' = [paySentAt EXCEPT ![p] =
                           IF step.pc = "done" THEN 0 ELSE clock]
        /\ payWire' = [payWire EXCEPT ![p] = step.wire]
        /\ payDraft' = [payDraft EXCEPT ![p] = "part_003"]
        /\ UNCHANGED <<clock, ticks, cbVars, tokenCache, payPush>>

\* The authentication GET answers 2xx: the token is stored and returned.
V2_TokenAuthResolved(p, res) ==
    LET access_token == IF res = "token" THEN Token(p) ELSE UndefinedToken
    IN  /\ payDraft[p] = "part_003"
        /\ payPc[p] = "awaitAuth"
        /\ Route(payReq[p]) = "/token"
        /\ CanSettle(paySentAt[p], AuthTimeoutMs, "ok")
        /\ tokenCache' = StoreToken(payNow[p], access_token)
        /\ payWire' = [payWire EXCEPT ![p] =
                         Append(@, PayResponse(200, TokenBody(access_token)))]
        /\ payPc' = [payPc EXCEPT ![p] = "done"]
        /\ payNow' = [payNow EXCEPT ![p] = 0]
        /\ paySentAt' = [paySentAt EXCEPT ![p] = 0]
        /\ UNCHANGED <<clock, ticks, cbVars, payReq, payDraft, payPush>>

\* The authentication GET rejects: the catch of the handler responds 500.
V2_TokenAuthRejected(p, err) ==
    /\ payDraft[p] = "part_003"
    /\ payPc[p] = "awaitAuth"
    /\ Route(payReq[p]) = "/token"
    /\ CanSettle(paySentAt[p], AuthTimeoutMs, err)
    /\ payWire' = [payWire EXCEPT ![p] =
                     Append(@, PayResponse(500, V2_TokenErrorBody))]
    /\ payPc' = [payPc EXCEPT ![p] = "done"]
    /\ payNow' = [payNow EXCEPT ![p] = 0]
    /\ paySentAt' = [paySentAt EXCEPT ![p] = 0]
    /\ UNCHANGED <<clock, ticks, cbVars, payReq, tokenCache, payDraft, payPush>>

(* ------------------ src/unnamed/part_002 : GET /token ------------------ *)
\* Entry of the handler: getAccessToken; on a cache hit the response.
R2_Token(p) ==
    LET step ==
            IF CacheHit(clock)
            THEN [pc |-> "done", now |-> 0,
                  wire |-> << PayResponse(200, TokenBody(tokenCache.token)) >>]
            ELSE [pc |-> "awaitAuth", now |-> clock, wire |-> << AuthCall >>]
    IN  /\ payPc[p] = "idle"
        /\ \A q \in PayIds : q < p => payPc[q] # "idle"
        /\ Deployed("part_002")
        /\ payReq' = [payReq EXCEPT ![p] = TokenReq]
        /\ payPc' = [payPc EXCEPT ![p] = step.pc]
        /\ payNow' = [payNow EXCEPT ![p] = step.now]
        /\ paySentAt' = [paySentAt EXCEPT ![p] =
                           IF step.pc = "done" THEN 0 ELSE clock]
        /\ payWire' = [payWire EXCEPT ![p] = step.wire]
        /\ payDraft' = [payDraft EXCEPT ![p] = "part_002"]
        /\ UNCHANGED <<clock, ticks, cbVars, tokenCache, payPush>>

\* The authentication GET answers 2xx: the token is stored and returned.
R2_TokenAuthResolved(p, res) ==
    LET access_token == IF res = "token" THEN Token(p) ELSE UndefinedToken
    IN  /\ payDraft[p] = "part_002"
        /\ payPc[p] = "awaitAuth"
        /\ Route(payReq[p]) = "/token"
        /\ CanSettle(paySentAt[p], AuthTimeoutMs, "ok")
        /\ tokenCache' = R2_StoreToken(payNow[p], access_token)
        /\ payWire' = [payWire EXCEPT ![p] =
                         Append(@, PayResponse(200, TokenBody(access_token)))]
        /\ payPc' = [payPc EXCEPT ![p] = "done"]
        /\ payNow' = [payNow EXCEPT ![p] = 0]
        /\ paySentAt' = [paySentAt EXCEPT ![p] = 0]
        /\ UNCHANGED <<clock, ticks, cbVars, payReq, payDraft, payPush>>

\* The authentication GET rejects: the catch of the handler responds 500.
R2_TokenAuthRejected(p, err) ==
    /\ payDraft[p] = "part_002"
    /\ payPc[p] = "awaitAuth"
    /\ Route(payReq[p]) = "/token"
    /\ CanSettle(paySentAt[p], AuthTimeoutMs, err)
    /\ payWire' = [payWire EXCEPT ![p] =
                     Append(@, PayResponse(500, R2_ErrorBody("Failed to get token")))]
    /\ payPc' = [payPc EXCEPT ![p] = "done"]
    /\ payNow' = [payNow EXCEPT ![p] = 0]
    /\ paySentAt' = [paySentAt EXCEPT ![p] = 0]
    /\ UNCHANGED <<clock, ticks, cbVars, payReq, tokenCache, payDraft, payPush>>

\* Concurrent /pay requests against the shared token cache, as time passes.
NextPay ==
    \/ Tick
    \/ \E p \in PayIds, body \in CoreBodies : HF_Pay(p, body)
    \/ \E p \in PayIds, res \in AuthResponses : HF_AuthResolved(p, res)
    \/ \E p \in PayIds, err \in GatewayErrors : HF_AuthRejected(p, err)
    \/ \E p \in PayIds, data \in PushResponses : HF_PushResolved(p, data)
    \/ \E p \in PayIds, err \in GatewayErrors : HF_PushRejected(p, err)

SpecPay == Init /\ [][NextPay]_vars

\* /pay requests over every request body, at one instant.
NextPayInputs ==
    \/ \E p \in PayIds, body \in PayBodies : HF_Pay(p, body)
    \/ \E p \in PayIds, res \in AuthResponses : HF_AuthResolved(p, res)
    \/ \E p \in PayIds, err \in GatewayErrors : HF_AuthRejected(p, err)
    \/ \E p \in PayIds, data \in PushResponses : HF_PushResolved(p, data)
    \/ \E p \in PayIds, err \in GatewayErrors : HF_PushRejected(p, err)

SpecPayInputs == Init /\ [][NextPayInputs]_vars

\* /pay requests to either draft of the service, as time passes.
NextPayDrafts ==
    \/ Tick
    \/ \E p \in PayIds, body \in CoreBodies : HF_Pay(p, body)
    \/ \E p \in PayIds, res \in AuthResponses : HF_AuthResolved(p, res)
    \/ \E p \in PayIds, err \in GatewayErrors : HF_AuthRejected(p, err)
    \/ \E p \in PayIds, data \in PushResponses : HF_PushResolved(p, data)
    \/ \E p \in PayIds, err \in GatewayErrors : HF_PushRejected(p, err)
    \/ \E p \in PayIds, body \in V2Bodies : V2_Pay(p, body)
    \/ \E p \in PayIds, res \in AuthResponses : V2_AuthResolved(p, res)
    \/ \E p \in PayIds, err \in GatewayRejections : V2_AuthRejected(p, err)
    \/ \E p \in PayIds, data \in PushResponses : V2_PushResolved(p, data)
    \/ \E p \in PayIds, err \in GatewayRejections : V2_PushRejected(p, err)

SpecPayDrafts == Init /\ [][NextPayDrafts]_vars

\* Status queries to part_002, as time passes.
NextStatus ==
    \/ Tick
    \/ \E p \in PayIds, id \in CheckoutIds, d \in InTurnSteps :
          R2_Status(p, id, d)
    \/ \E p \in PayIds, res \in AuthResponses, d \in InTurnSteps :
          R2_StatusAuthResolved(p, res, d)
    \/ \E p \in PayIds, err \in GatewayErrors : R2_StatusAuthRejected(p, err)
    \/ \E p \in PayIds, data \in StatusResponses : R2_StatusResolved(p, data)
    \/ \E p \in PayIds, err \in R2StatusErrors : R2_StatusRejected(p, err)

SpecStatus == Init /\ [][NextStatus]_vars

\* The callers of getAccessToken in server.js and in part_002.
NextToken ==
    \/ Tick
    \/ \E p \in PayIds, body \in CoreBodies : HF_Pay(p, body)
    \/ \E p \in PayIds, res \in AuthResponses : HF_AuthResolved(p, res)
    \/ \E p \in PayIds, err \in GatewayErrors : HF_AuthRejected(p, err)
    \/ \E p \in PayIds, data \in PushResponses : HF_PushResolved(p, data)
    \/ \E p \in PayIds, err \in GatewayErrors : HF_PushRejected(p, err)
    \/ \E p \in PayIds, id \in CheckoutIds, d \in InTurnSteps :
          R2_Status(p, id, d)
    \/ \E p \in PayIds, res \in AuthResponses, d \in InTurnSteps :
          R2_StatusAuthResolved(p, res, d)
    \/ \E p \in PayIds, err \in GatewayErrors : R2_StatusAuthRejected(p, err)
    \/ \E p \in PayIds, data \in StatusResponses : R2_StatusResolved(p, data)
    \/ \E p \in PayIds, err \in R2StatusErrors : R2_StatusRejected(p, err)

SpecToken == Init /\ [][NextToken]_vars

\* The calls of getAccessToken in server.js and in part_002, up to the moment
\* the caller has the token or the error: the gateway calls that follow are
\* left pending.
NextFetch ==
    \/ Tick
    \/ \E p \in PayIds, body \in CoreBodies : HF_Pay(p, body)
    \/ \E p \in PayIds, res \in AuthResponses : HF_AuthResolved(p, res)
    \/ \E p \in PayIds, err \in GatewayErrors : HF_AuthRejected(p, err)
    \/ \E p \in PayIds, id \in CheckoutIds, d \in InTurnSteps :
          R2_Status(p, id, d)
    \/ \E p \in PayIds, res \in AuthResponses, d \in InTurnSteps :
          R2_StatusAuthResolved(p, res, d)
    \/ \E p \in PayIds, err \in GatewayErrors : R2_StatusAuthRejected(p, err)

SpecFetch == Init /\ [][NextFetch]_vars

\* One /pay request over every phone.
NextPayPhones ==
    \/ \E body \in PhoneBodies : HF_Pay(FirstPay, body)
    \/ \E res \in AuthResponses : HF_AuthResolved(FirstPay, res)
    \/ \E err \in GatewayErrors : HF_AuthRejected(FirstPay, err)
    \/ \E data \in PushResponses : HF_PushResolved(FirstPay, data)
    \/ \E err \in GatewayErrors : HF_PushRejected(FirstPay, err)

SpecPayPhones == Init /\ [][NextPayPhones]_vars

\* One /pay request over every description, as time passes.
NextPayDescriptions ==
    \/ Tick
    \/ \E body \in DescriptionBodies : HF_Pay(FirstPay, body)
    \/ \E res \in AuthResponses : HF_AuthResolved(FirstPay, res)
    \/ \E err \in GatewayErrors : HF_AuthRejected(FirstPay, err)
    \/ \E data \in PushResponses : HF_PushResolved(FirstPay, data)
    \/ \E err \in GatewayErrors : HF_PushRejected(FirstPay, err)

SpecPayDescriptions == Init /\ [][NextPayDescriptions]_vars

\* Status queries to part_003, at one instant.
NextStatusV2 ==
    \/ \E p \in PayIds, id \in CheckoutIds : V2_Status(p, id)
    \/ \E p \in PayIds, res \in AuthResponses : V2_StatusAuthResolved(p, res)
    \/ \E p \in PayIds, err \in GatewayRejections :
          V2_StatusAuthRejected(p, err)
    \/ \E p \in PayIds, data \in StatusResponses : V2_StatusResolved(p, data)
    \/ \E p \in PayIds, err \in GatewayRejections : V2_StatusRejected(p, err)

SpecStatusV2 == Init /\ [][NextStatusV2]_vars

\* One request to any synchronous endpoint of part_003 or part_002, as time
\* passes.
NextEndpoints ==
    \/ Tick
    \/ \E body \in V2Bodies : V2_Pay(FirstPay, body)
    \/ \E res \in AuthResponses : V2_AuthResolved(FirstPay, res)
    \/ \E err \in GatewayRejections : V2_AuthRejected(FirstPay, err)
    \/ \E data \in PushResponses : V2_PushResolved(FirstPay, data)
    \/ \E err \in GatewayRejections : V2_PushRejected(FirstPay, err)
    \/ \E id \in CheckoutIds : V2_Status(FirstPay, id)
    \/ \E res \in AuthResponses : V2_StatusAuthResolved(FirstPay, res)
    \/ \E err \in GatewayRejections : V2_StatusAuthRejected(FirstPay, err)
    \/ \E data \in StatusResponses : V2_StatusResolved(FirstPay, data)
    \/ \E err \in GatewayRejections : V2_StatusRejected(FirstPay, err)
    \/ V2_Token(FirstPay)
    \/ \E res \in AuthResponses : V2_TokenAuthResolved(FirstPay, res)
    \/ \E err \in GatewayErrors : V2_TokenAuthRejected(FirstPay, err)
    \/ \E id \in CheckoutIds, d \in InTurnSteps : R2_Status(FirstPay, id, d)
    \/ \E res \in AuthResponses, d \in InTurnSteps :
          R2_StatusAuthResolved(FirstPay, res, d)
    \/ \E err \in GatewayErrors : R2_StatusAuthRejected(FirstPay, err)
    \/ \E data \in StatusResponses : R2_StatusResolved(FirstPay, data)
    \/ \E err \in R2StatusErrors : R2_StatusRejected(FirstPay, err)
    \/ R2_Token(FirstPay)
    \/ \E res \in AuthResponses : R2_TokenAuthResolved(FirstPay, res)
    \/ \E err \in GatewayErrors : R2_TokenAuthRejected(FirstPay, err)

SpecEndpoints == Init /\ [][NextEndpoints]_vars

\* server.js as a whole: the turns of /pay requests and of callbacks
\* interleave on the event loop, in any order.
NextService ==
    \/ \E p \in PayIds, body \in CoreBodies : HF_Pay(p, body)
    \/ \E p \in PayIds, res \in AuthResponses : HF_AuthResolved(p, res)
    \/ \E p \in PayIds, err \in GatewayErrors : HF_AuthRejected(p, err)
    \/ \E p \in PayIds, data \in PushResponses : HF_PushResolved(p, data)
    \/ \E p \in PayIds, err \in GatewayErrors : HF_PushRejected(p, err)
    \/ \E c \in CbIds, payload \in CorePayloads : HF_Callback(c, payload)
    \/ \E c \in CbIds, outcome \in ForwardOutcomes : HF_ForwardSettled(c, outcome)

SpecService == Init /\ [][NextService]_vars

\* The gateway delivers callbacks to either draft of the service.
NextCallback ==
    \/ Tick
    \/ \E c \in CbIds, payload \in Payloads : HF_Callback(c, payload)
    \/ \E c \in CbIds, outcome \in ForwardOutcomes : HF_ForwardSettled(c, outcome)
    \/ \E c \in CbIds, payload \in Payloads : V2_Callback(c, payload)
    \/ \E c \in CbIds, outcome \in ForwardOutcomes : V2_ForwardSettled(c, outcome)

SpecCallback == Init /\ [][NextCallback]_vars

(* ===================== properties of POST /callback ==================== *)
IsResponse(e) == e.kind = "response"
IsForward(e) == e.kind = "forward"

\* What callback c sent to the gateway / to the wallet service, in order.
Responses(c) == SelectSeq(cbWire[c], IsResponse)
Forwards(c) == SelectSeq(cbWire[c], IsForward)

\* C1: in server.js, every forward POST on the wire of a callback is preceded
\* by the success acknowledgement of that callback.
C1_AckBeforeForward ==
    \A c \in CbIds :
        cbDraft[c] = "server.js" =>
            \A i \in DOMAIN cbWire[c] :
                IsForward(cbWire[c][i]) =>
                    \E j \in 1..(i - 1) :
                        /\ IsResponse(cbWire[c][j])
                        /\ cbWire[c][j].data = SuccessAck

\* A server.js callback whose forward is in flight.
C1_Witness ==
    \E c \in CbIds :
        /\ cbDraft[c] = "server.js"
        /\ cbPc[c] = "awaitForward"
        /\ Len(Forwards(c)) = 1

\* C2: in part_003, the acknowledgement is sent at the instant the callback is
\* received, also while the forward is still in flight.
C2_AckImmediate ==
    \A c \in CbIds :
        (cbDraft[c] = "part_003" /\ cbPc[c] # "idle") =>
            \E i \in DOMAIN cbWire[c] :
                /\ IsResponse(cbWire[c][i])
                /\ cbWire[c][i].at = cbAt[c]

\* C3: once the forward of a callback has settled, in either draft and
\* whatever the way it settled, the gateway has received exactly the success
\* acknowledgement with status 200.
C3_AckWhateverForwardOutcome ==
    \A c \in CbIds :
        cbOutcome[c] \in ForwardOutcomes =>
            /\ Len(Responses(c)) = 1
            /\ Responses(c)[1].data = SuccessAck
            /\ Responses(c)[1].status = 200

\* A part_003 callback whose forward timed out.
C3_Witness ==
    \E c \in CbIds :
        /\ cbDraft[c] = "part_003"
        /\ cbPc[c] = "done"
        /\ cbOutcome[c] = "timeout"

\* C9: no response of /callback is anything but the success acknowledgement,
\* and a handler that has ended has responded, for every payload shape and
\* also when the handler threw internally.
C9_NeverAnErrorBody ==
    \A c \in CbIds :
        /\ \A i \in DOMAIN cbWire[c] :
              IsResponse(cbWire[c][i]) =>
                  (cbWire[c][i].data = SuccessAck /\ cbWire[c][i].status = 200)
        /\ cbPc[c] = "done" => Len(Responses(c)) >= 1

\* A part_003 callback whose metadata extraction threw.
C9_Witness ==
    \E c \in CbIds :
        /\ cbDraft[c] = "part_003"
        /\ cbPc[c] = "done"
        /\ cbExtracted[c].threw

\* C10: in server.js, a callback is forwarded at most once, a failed or timed
\* out forward is followed by no further forward, and the gateway's
\* acknowledgement is the success acknowledgement all the same.
C10_SingleBestEffortForward ==
    \A c \in CbIds :
        cbDraft[c] = "server.js" =>
            /\ Len(Forwards(c)) <= 1
            /\ cbOutcome[c] \in {"fail", "timeout"} =>
                  /\ Len(Forwards(c)) = 1
                  /\ Len(Responses(c)) = 1
                  /\ Responses(c)[1].data = SuccessAck

\* A server.js callback whose forward failed.
C10_Witness ==
    \E c \in CbIds :
        /\ cbDraft[c] = "server.js"
        /\ cbPc[c] = "done"
        /\ cbOutcome[c] = "fail"


(* ================== properties of POST /pay (server.js) ================= *)
IsAuthCall(e) == e.kind = "auth"
IsPushCall(e) == e.kind = "push"

\* The gateway calls request p has issued so far.
GatewayCalls(p) ==
    SelectSeq(payWire[p], LAMBDA e : IsAuthCall(e) \/ IsPushCall(e))

\* C4: while the cache is cold, concurrent /pay calls share one authentication
\* call: no two authentication calls are ever in flight together.
C4_SingleFlightAuth ==
    \A p, q \in PayIds :
        (payPc[p] = "awaitAuth" /\ payPc[q] = "awaitAuth") => p = q

\* C5: the token getAccessToken hands to a handler is the cached one and the
\* clock is before its tracked expiry at that instant; a call entered at
\* now >= tokenCache.expiry is not served from the cache but issues an
\* authentication call.
C5_NoCredentialAfterExpiry ==
    [][\A p \in PayIds :
          /\ (payPc[p] # "awaitPush" /\ payPc'[p] = "awaitPush") =>
                /\ payWire'[p][Len(payWire'[p])].token = tokenCache'.token
                /\ clock' < tokenCache'.expiry
          /\ (payPc[p] = "idle" /\ payPc'[p] \in {"awaitAuth", "awaitPush"}
                /\ clock >= tokenCache.expiry) =>
                /\ payPc'[p] = "awaitAuth"
                /\ payWire'[p] = << AuthCall >>
                /\ tokenCache' = tokenCache
      ]_vars

\* A handler awaits a fresh fetch that it entered when the cached token had
\* reached its expiry.
C5_Witness ==
    \E p \in PayIds :
        /\ payPc[p] = "awaitAuth"
        /\ tokenCache.token.t = "string"
        /\ payNow[p] >= tokenCache.expiry

\* C6: a step in which the authentication call of request p ends without an
\* access token (rejection, or a 2xx body with no access_token) leaves
\* tokenCache as it was and ends the request with an error response.
C6_FailedFetchLeavesCache ==
    [][\A p \in PayIds :
          (payPc[p] = "awaitAuth" /\ payPc'[p] # "awaitAuth"
             /\ tokenCache'.token # Token(p)) =>
                /\ tokenCache' = tokenCache
                /\ payPc'[p] = "done"
                /\ payWire'[p][Len(payWire'[p])].kind = "response"
                /\ payWire'[p][Len(payWire'[p])].body.success = FALSE
      ]_vars

\* The amount truncated toward zero, as the claim reads it.
TruncTowardZero(n) == IF n.neg THEN -n.int ELSE n.int

\* The amount is a number, or a string naming one, below 1 after truncation.
BelowOneAfterTruncation(amount) ==
    /\ amount.t \in {"number", "string"}
    /\ ~ParseFloat(amount.chars).nan
    /\ TruncTowardZero(ParseFloat(amount.chars)) < 1

\* C7: a /pay request whose amount is below 1 after truncation gets a 400
\* validation error and nothing else goes on the wire: no authentication
\* call, no push call.
C7_LowAmountRejectedNoCall ==
    \A p \in PayIds :
        (payPc[p] # "idle" /\ BelowOneAfterTruncation(payReq[p].amount)) =>
            /\ payPc[p] = "done"
            /\ Len(payWire[p]) = 1
            /\ payWire[p][1].kind = "response"
            /\ payWire[p][1].status = 400
            /\ payWire[p][1].body.success = FALSE
            /\ GatewayCalls(p) = << >>

\* The request {phone: "+254 7", amount: "0.9"} was rejected as too low.
C7_Witness ==
    \E p \in PayIds :
        /\ payPc[p] = "done"
        /\ payReq[p] = Body(JsStr(<< "+", "2", "5", "4", " ", "7" >>),
                            JsStr(<< "0", ".", "9" >>))
        /\ payWire[p] = << PayResponse(400, AmountTooLowBody) >>

\* C8: a /pay request without phone or without amount gets status 400 with
\* body {success: false, error: "Phone and amount are required."} and issues
\* no gateway call.
C8_MissingFieldRejectedNoCall ==
    \A p \in PayIds :
        (payPc[p] # "idle"
           /\ (payReq[p].phone = JsUndefined \/ payReq[p].amount = JsUndefined)) =>
            /\ payPc[p] = "done"
            /\ payWire[p] =
                 << PayResponse(400,
                        [success |-> FALSE,
                         error |-> "Phone and amount are required."]) >>
            /\ GatewayCalls(p) = << >>

\* The request {amount: 100}, without phone, was rejected.
C8_Witness ==
    \E p \in PayIds :
        /\ payPc[p] = "done"
        /\ payReq[p] = Body(JsUndefined, JsNum(<< "1", "0", "0" >>))
        /\ Len(payWire[p]) = 1
        /\ payWire[p][1].status = 400

\* The responses request p has received so far, in order.
PayResponses(p) == SelectSeq(payWire[p], IsResponse)

\* C11: in server.js, a push that the gateway answered 2xx with a nonzero
\* ResponseCode ends in a failure response (success: false) and never in a
\* success body; a success body is returned only for ResponseCode "0".
C11_NonzeroResponseCodeRejected ==
    \A p \in PayIds :
        (payDraft[p] = "server.js" /\ payPush[p].outcome = "ok"
           /\ Field(payPush[p].data, "ResponseCode") # "0") =>
            /\ Len(PayResponses(p)) = 1
            /\ PayResponses(p)[1].body.success = FALSE

\* C12: in server.js and in part_003, a push call that timed out or failed in
\* transport ends the request with one response, of status 500 or 502, whose
\* body has success: false and no CheckoutRequestID.
C12_PushTransportFailureIsError ==
    \A p \in PayIds :
        (payDraft[p] \in {"server.js", "part_003"}
           /\ payPush[p].outcome \in {"timeout", "network"}) =>
            /\ payPc[p] = "done"
            /\ Len(PayResponses(p)) = 1
            /\ PayResponses(p)[1].status \in {500, 502}
            /\ Has(PayResponses(p)[1].body, "success")
            /\ PayResponses(p)[1].body.success = FALSE
            /\ ~Has(PayResponses(p)[1].body, "CheckoutRequestID")

\* A push of part_003 timed out after a push of part_003 failed in transport.
C12_Witness ==
    \E p, q \in PayIds :
        /\ payDraft[p] = "part_003" /\ payPush[p].outcome = "timeout"
        /\ payDraft[q] = "part_003" /\ payPush[q].outcome = "network"

\* C13: a handler of server.js that calls getAccessToken while a token is
\* cached and the clock is before tokenCache.expiry gets that token (the push
\* it sends in the same turn carries it), issues no authentication call and
\* leaves tokenCache as it was; an authentication call is issued only when no
\* token is cached or the clock has reached the expiry.
C13_CachedTokenNoFetch ==
    [][\A p \in PayIds :
          (payPc[p] = "idle" /\ payPc'[p] \in {"awaitAuth", "awaitPush"}) =>
              /\ (tokenCache.token.t = "string" /\ clock < tokenCache.expiry) =>
                    /\ payWire'[p] =
                         << PushCall(tokenCache.token,
                                     MpesaPayload(payReq'[p], clock)) >>
                    /\ tokenCache' = tokenCache
              /\ (\E i \in DOMAIN payWire'[p] : IsAuthCall(payWire'[p][i])) =>
                    (tokenCache.token.t # "string" \/ clock >= tokenCache.expiry)
      ]_vars

\* A request was served from the cache: its only wire event is the push, with
\* the token another request had fetched.
C13_Witness ==
    \E p \in PayIds :
        /\ payPc[p] = "awaitPush"
        /\ Len(payWire[p]) = 1
        /\ payWire[p][1].token.t = "string"
        /\ payWire[p][1].token # Token(p)

\* The lifetime of a credential at the gateway, as the claim gives it.
GatewayLifetimeMs == 3599 * 1000

\* C14: when getAccessToken (server.js, part_002) stores a credential, the
\* expiry it stores is the `now` read at entry of the call plus 3590 s, and
\* it is strictly earlier than the lapse of the credential at the gateway,
\* which is no earlier than the instant the call was issued plus 3599 s.
C14_ExpiryBeforeLapse ==
    [][\A p \in PayIds :
          (payPc[p] = "awaitAuth" /\ payPc'[p] \in {"awaitPush", "awaitStatus"}
             /\ tokenCache'.token.t = "string") =>
                /\ tokenCache'.expiry = payNow[p] + 3590 * SecondMs
                /\ tokenCache'.expiry < paySentAt[p] + GatewayLifetimeMs
      ]_vars

\* The push calls request p has issued so far.
PushCalls(p) == SelectSeq(payWire[p], IsPushCall)

\* C15: in every push request sent by /pay of server.js, Password encodes
\* SHORTCODE, PASSKEY and the very value of the Timestamp field of that
\* request, however the clock moved between the turns of the handler.
C15_PasswordFromRequestTimestamp ==
    \A p \in PayIds :
        payDraft[p] = "server.js" =>
            \A i \in DOMAIN PushCalls(p) :
                PushCalls(p)[i].payload.Password =
                    [shortCode |-> "SHORTCODE", passKey |-> "PASSKEY",
                     timestamp |-> PushCalls(p)[i].payload.Timestamp]

\* A push was built at a later clock than the `now` its handler read at entry
\* of getAccessToken.
C15_Witness ==
    \E p \in PayIds :
        /\ payDraft[p] = "server.js"
        /\ payPc[p] = "awaitPush"
        /\ tokenCache.token = Token(p)
        /\ Len(PushCalls(p)) = 1
        /\ PushCalls(p)[1].payload.Timestamp * SecondMs >
               tokenCache.expiry - TokenLifetimeMs

IsStatusCall(e) == e.kind = "status"

\* The status queries request p has issued so far.
StatusCalls(p) == SelectSeq(payWire[p], IsStatusCall)

\* C16: in every status query sent by part_002, Password encodes SHORTCODE,
\* PASSKEY and the very value of the Timestamp field of that query, also when
\* the clock advances a second while the handler runs.
C16_StatusPasswordMatchesTimestamp ==
    \A p \in PayIds :
        payDraft[p] = "part_002" =>
            \A i \in DOMAIN StatusCalls(p) :
                StatusCalls(p)[i].payload.Password =
                    [shortCode |-> "SHORTCODE", passKey |-> "PASSKEY",
                     timestamp |-> StatusCalls(p)[i].payload.Timestamp]

\* The digit characters of s, in their order in s.
RECURSIVE DigitsInOrder(_)
DigitsInOrder(s) ==
    IF s = << >> THEN << >>
    ELSE IF Head(s) \in DigitChars
         THEN << Head(s) >> \o DigitsInOrder(Tail(s))
         ELSE DigitsInOrder(Tail(s))

\* C17: in every push request of server.js, PartyA and PhoneNumber are the
\* same string, made of digits only, and that string is the digit characters
\* of the phone of the request body in their original order.
C17_PhoneDigitsInOrder ==
    \A p \in PayIds :
        payDraft[p] = "server.js" =>
            \A i \in DOMAIN PushCalls(p) :
                /\ PushCalls(p)[i].payload.PhoneNumber =
                       PushCalls(p)[i].payload.PartyA
                /\ \A k \in DOMAIN PushCalls(p)[i].payload.PartyA :
                       PushCalls(p)[i].payload.PartyA[k] \in DigitChars
                /\ PushCalls(p)[i].payload.PartyA =
                       DigitsInOrder(payReq[p].phone.chars)

\* The phone "7 2" went out as "72".
C17_Witness ==
    \E p \in PayIds :
        /\ payDraft[p] = "server.js"
        /\ payReq[p].phone = JsStr(<< "7", " ", "2" >>)
        /\ Len(PushCalls(p)) = 1
        /\ PushCalls(p)[1].payload.PartyA = << "7", "2" >>

\* The amount is a number, or a string naming one, that is at least 1 after
\* truncation toward zero.
AtLeastOneAfterTruncation(amount) ==
    /\ amount.t \in {"number", "string"}
    /\ ~ParseFloat(amount.chars).nan
    /\ TruncTowardZero(ParseFloat(amount.chars)) >= 1

\* C18: in server.js, every push request carries as Amount the integer
\* obtained by truncating the parsed amount toward zero, which is at least 1;
\* and a request whose amount does not parse to a number that is at least 1
\* gets a 400 validation error and nothing else.
C18_AmountIntegerAtLeastOne ==
    \A p \in PayIds :
        (payDraft[p] = "server.js" /\ payPc[p] # "idle") =>
            /\ \A i \in DOMAIN PushCalls(p) :
                  /\ ~PushCalls(p)[i].payload.Amount.nan
                  /\ PushCalls(p)[i].payload.Amount.v >= 1
                  /\ PushCalls(p)[i].payload.Amount.v =
                         TruncTowardZero(ParseFloat(payReq[p].amount.chars))
            /\ ~AtLeastOneAfterTruncation(payReq[p].amount) =>
                  /\ payPc[p] = "done"
                  /\ Len(payWire[p]) = 1
                  /\ payWire[p][1].kind = "response"
                  /\ payWire[p][1].status = 400
                  /\ payWire[p][1].body.success = FALSE

\* The Value of the metadata item named "Amount" of a callback payload.
AmountOf(payload) ==
    FindValue(ItemsOf(StkCallback(payload)).elems, "Amount").value

\* C19: in server.js and in part_003, the body of every forward POST is the
\* callback payload as received, field for field; in particular a payload
\* with ResultCode 0 whose Amount item has Value 500 is forwarded with an
\* Amount item of Value 500.
C19_ForwardedUnchanged ==
    \A c \in CbIds :
        \A i \in DOMAIN Forwards(c) :
            /\ Forwards(c)[i].data = cbPayload[c]
            /\ (/\ ResultCodeIsZero(StkCallback(cbPayload[c]))
                /\ AmountOf(cbPayload[c]) = Val(500)) =>
                   AmountOf(Forwards(c)[i].data) = Val(500)

\* part_003 forwarded a callback with ResultCode 0 and an Amount item of 500.
C19_Witness ==
    \E c \in CbIds :
        /\ cbDraft[c] = "part_003"
        /\ ResultCodeIsZero(StkCallback(cbPayload[c]))
        /\ Len(Forwards(c)) = 1
        /\ AmountOf(Forwards(c)[1].data) = Val(500)

\* C20: in server.js, a step in which the credential fetch of request p fails
\* (the authentication call rejects, or answers without an access token) ends
\* the request with a success: false response, and no push request is on the
\* wire of that request.
C20_FailedFetchSurfacedNoPush ==
    [][\A p \in PayIds :
          (payDraft[p] = "server.js" /\ payPc[p] = "awaitAuth"
             /\ payPc'[p] # "awaitAuth" /\ tokenCache'.token # Token(p)) =>
                /\ payPc'[p] = "done"
                /\ payWire'[p][Len(payWire'[p])].kind = "response"
                /\ payWire'[p][Len(payWire'[p])].body.success = FALSE
                /\ \A i \in DOMAIN payWire'[p] : ~IsPushCall(payWire'[p][i])
      ]_vars

\* The first n characters of s.
FirstChars(s, n) == [i \in 1..(IF Len(s) < n THEN Len(s) ELSE n) |-> s[i]]

\* C21: in server.js, a request with an accepted phone and amount and a
\* supplied description is never answered with an error on account of the
\* description (its only error responses report a failed gateway call), and
\* its push, once the handler has the token, carries the first 12 characters
\* of the description as AccountReference and the first 13 as
\* TransactionDesc.
C21_DescriptionTruncatedNotRejected ==
    \A p \in PayIds :
        (payDraft[p] = "server.js" /\ payPc[p] # "idle"
           /\ payReq[p].description.t # "undefined") =>
            /\ \A i \in DOMAIN PayResponses(p) :
                  \/ PayResponses(p)[i].body.success
                  \/ /\ PayResponses(p)[i].status = 500
                     /\ PayResponses(p)[i].body.detail \in GatewayErrors
            /\ \A i \in DOMAIN PushCalls(p) :
                  /\ PushCalls(p)[i].payload.AccountReference =
                         FirstChars(payReq[p].description.chars, 12)
                  /\ PushCalls(p)[i].payload.TransactionDesc =
                         FirstChars(payReq[p].description.chars, 13)

\* C22: in part_003, every status query carries the checkoutId of its request
\* as CheckoutRequestID, and a request whose query the gateway answered 2xx
\* gets exactly one response: status 200 with the gateway's body as it is.
C22_StatusBodyReturnedUnmodified ==
    \A p \in PayIds :
        (payDraft[p] = "part_003" /\ Route(payReq[p]) = "/status") =>
            /\ \A i \in DOMAIN StatusCalls(p) :
                  StatusCalls(p)[i].payload.CheckoutRequestID =
                      payReq[p].checkoutId
            /\ payPush[p].outcome = "ok" =>
                  PayResponses(p) = << PayResponse(200, payPush[p].data) >>

\* The query for ws_CO_2 was answered by the gateway with ResultCode 1032.
C22_Witness ==
    \E p \in PayIds :
        /\ payDraft[p] = "part_003"
        /\ payReq[p] = StatusReq("ws_CO_2")
        /\ payPc[p] = "done"
        /\ payPush[p].outcome = "ok"
        /\ payPush[p].data.ResultCode = "1032"

\* The metadata items a payload carries: none when CallbackMetadata or its
\* Item is absent.
ReceivedItems(payload) ==
    LET meta == Field(StkCallback(payload), "CallbackMetadata")
    IN  IF Has(meta, "Item") THEN meta.Item.elems ELSE << >>

\* Item, when present, is an array of name/value objects.
WellFormedItems(payload) ==
    LET meta == Field(StkCallback(payload), "CallbackMetadata")
    IN  Has(meta, "Item") =>
            /\ meta.Item.kind = "list"
            /\ \A i \in DOMAIN meta.Item.elems : ~meta.Item.elems[i].isNull

\* The Value of the first item with the given name, unset when there is none.
ItemValue(payload, name) ==
    LET elems == ReceivedItems(payload)
        hits == { i \in DOMAIN elems : elems[i].Name = name }
    IN  IF hits = {} THEN Unset
        ELSE Val(elems[CHOOSE i \in hits : \A j \in hits : i <= j].Value)

\* C23: in the callback handler of part_003, nothing is extracted unless
\* ResultCode is 0; when it is 0 and the items are well formed, each of
\* Amount, MpesaReceiptNumber and PhoneNumber is the Value of its item, or
\* unset when the item (or the whole CallbackMetadata) is absent, and the
\* handler does not fail: it goes on to the forward.
C23_AbsentItemsTolerated ==
    \A c \in CbIds :
        (cbDraft[c] = "part_003" /\ cbPc[c] # "idle") =>
            /\ ~ResultCodeIsZero(StkCallback(cbPayload[c])) =>
                  cbExtracted[c] = NotExtracted
            /\ (/\ ResultCodeIsZero(StkCallback(cbPayload[c]))
                /\ WellFormedItems(cbPayload[c])) =>
                  /\ ~cbExtracted[c].threw
                  /\ cbExtracted[c].amount = ItemValue(cbPayload[c], "Amount")
                  /\ cbExtracted[c].receipt =
                         ItemValue(cbPayload[c], "MpesaReceiptNumber")
                  /\ cbExtracted[c].phone =
                         ItemValue(cbPayload[c], "PhoneNumber")
                  /\ Len(Forwards(c)) = 1

\* A callback with ResultCode 0 and no CallbackMetadata was handled by
\* part_003.
C23_Witness ==
    \E c \in CbIds :
        /\ cbDraft[c] = "part_003"
        /\ cbPc[c] = "done"
        /\ ResultCodeIsZero(StkCallback(cbPayload[c]))
        /\ ~Has(StkCallback(cbPayload[c]), "CallbackMetadata")
        /\ cbExtracted[c].amount = Unset
        /\ Len(Forwards(c)) = 1

\* C24: in part_003 and part_002, every error response (status 400 or above)
\* of /pay, /status and /token is a body with success: false.
C24_ErrorBodiesHaveDiscriminator ==
    \A p \in PayIds :
        payDraft[p] \in {"part_003", "part_002"} =>
            \A i \in DOMAIN PayResponses(p) :
                PayResponses(p)[i].status >= 400 =>
                    /\ Has(PayResponses(p)[i].body, "success")
                    /\ PayResponses(p)[i].body.success = FALSE

\* C25: in server.js, while a /pay handler awaits its authentication or push
\* call, the next callback to arrive can be handled (and its handler sends
\* the acknowledgement in the turn of its arrival), and the next /pay to
\* arrive can be validated and started, whatever its body.
C25_SlowCallBlocksNoOne ==
    \A p \in PayIds :
        payPc[p] \in {"awaitAuth", "awaitPush"} =>
            /\ \A c \in CbIds :
                  (cbPc[c] = "idle" /\ \A d \in CbIds : d < c => cbPc[d] # "idle")
                     => \A payload \in CorePayloads :
                            ENABLED HF_Callback(c, payload)
            /\ \A q \in PayIds :
                  (payPc[q] = "idle" /\ \A r \in PayIds : r < q => payPc[r] # "idle")
                     => \A body \in CoreBodies : ENABLED HF_Pay(q, body)
            /\ \A c \in CbIds :
                  cbPc[c] # "idle" =>
                      /\ Len(Responses(c)) = 1
                      /\ Responses(c)[1].at = cbAt[c]

\* While the authentication call of the first /pay is still pending, the
\* second /pay has been started and a callback has been acknowledged.
C25_Witness ==
    \E p, q \in PayIds, c \in CbIds :
        /\ p < q
        /\ payPc[p] = "awaitAuth"
        /\ payPc[q] = "awaitAuth"
        /\ cbPc[c] # "idle"
        /\ Len(Responses(c)) = 1

\* The field was supplied in the request body.
Supplied(value) == value # JsUndefined

\* C26: in /pay of server.js, the "missing field" error is returned only when
\* phone or amount was not supplied, and a request that supplies a phone and
\* an amount below 1 (the number 0 and the string "0" included) gets the 400
\* "amount too low" error.
C26_ValidationReasonsInOrder ==
    \A p \in PayIds :
        (payDraft[p] = "server.js" /\ payPc[p] # "idle") =>
            /\ (\E i \in DOMAIN PayResponses(p) :
                    PayResponses(p)[i].body = MissingFieldBody)
                  => (~Supplied(payReq[p].phone) \/ ~Supplied(payReq[p].amount))
            /\ ( /\ Supplied(payReq[p].phone)
                 /\ Supplied(payReq[p].amount)
                 /\ BelowOneAfterTruncation(payReq[p].amount) )
                  => /\ Len(PayResponses(p)) = 1
                     /\ PayResponses(p)[1].status = 400
                     /\ PayResponses(p)[1].body = AmountTooLowBody

\* C27: in server.js, every step that changes the shared cache entry is the
\* store of one getAccessToken invocation and writes both fields at once: the
\* token that invocation received, and as expiry the clock that invocation
\* read on entry plus 3590 s. No state lies between the two writes, so no
\* handler reads a token with the expiry of another invocation.
C27_CacheEntryIsConsistentPair ==
    [][ tokenCache' # tokenCache =>
          \E p \in PayIds :
              /\ payDraft[p] = "server.js"
              /\ payPc[p] = "awaitAuth"
              /\ payPc'[p] # "awaitAuth"
              /\ tokenCache'.token \in {Token(p), UndefinedToken}
              /\ tokenCache'.expiry = payNow[p] + TokenLifetimeMs
      ]_vars

\* Two refreshes overlapped: both requests fetched a token of their own within
\* one token lifetime, and the cache holds the one stored last.
C27_Witness ==
    \E p, q \in PayIds :
        /\ p # q
        /\ clock < TokenLifetimeMs
        /\ tokenCache.token = Token(p)
        /\ tokenCache.expiry <= clock + TokenLifetimeMs
        /\ \E i \in DOMAIN PushCalls(q) : PushCalls(q)[i].token = Token(q)
        /\ \E i \in DOMAIN PushCalls(p) : PushCalls(p)[i].token = Token(p)

\* The success bodies request p has received so far.
SuccessBodies(p) ==
    SelectSeq(PayResponses(p), LAMBDA e : Has(e.body, "success")
                                          /\ e.body.success = TRUE)

\* C28: a /pay request of server.js has no response while its handler runs
\* and exactly one once it has finished; it sends at most one push request;
\* a push request is sent only for a body that passed both validation tests,
\* with a token as credential, and before the response; and there are no more
\* success bodies than push requests.
C28_OneResponseAtMostOnePush ==
    \A p \in PayIds :
        (payDraft[p] = "server.js" /\ payPc[p] # "idle") =>
            /\ Len(PayResponses(p)) = (IF payPc[p] = "done" THEN 1 ELSE 0)
            /\ Len(PushCalls(p)) <= 1
            /\ \A i \in DOMAIN payWire[p] :
                  IsPushCall(payWire[p][i]) =>
                      /\ ~MissingField(payReq[p])
                      /\ ~AmountTooLow(MathFloor(ParseFloat(payReq[p].amount.chars)))
                      /\ payWire[p][i].token.t = "string"
                      /\ \A j \in 1..i : ~IsResponse(payWire[p][j])
            /\ Len(SuccessBodies(p)) <= Len(PushCalls(p))

\* The response bodies that report a rejected authentication call.
FetchFailedBodies ==
    { FailedBody(err) : err \in GatewayErrors }
        \cup { R2_ErrorBody("Failed to get access token") }

\* C29: in server.js and part_002, (1) a step in which the authentication
\* call of a request rejects leaves the cache as it was; (2) a request that
\* calls getAccessToken while the cache holds no token, or an expired one,
\* issues an authentication call, also after an earlier fetch has failed;
\* (3) when that call answers with a token, the cache holds this token and
\* the caller uses it in its gateway call.
C29_FailedFetchNotCached ==
    [][\A p \in PayIds :
          LET last == payWire'[p][Len(payWire'[p])]
          IN  /\ ( /\ payPc[p] = "awaitAuth"
                   /\ payPc'[p] = "done"
                   /\ last.body \in FetchFailedBodies )
                    => tokenCache' = tokenCache
              /\ ( /\ payPc[p] = "idle"
                   /\ payPc'[p] \notin {"idle", "done"}
                   /\ ~CacheHit(clock) )
                    => /\ payPc'[p] = "awaitAuth"
                       /\ payWire'[p] = << AuthCall >>
              /\ ( /\ payPc[p] = "awaitAuth"
                   /\ payPc'[p] \in {"awaitPush", "awaitStatus"}
                   /\ last.token.t = "string" )
                    => /\ last.token = Token(p)
                       /\ tokenCache'.token = Token(p)
      ]_vars

\* The fetch of an earlier request failed and was answered with an error;
\* a later request found no token in the cache, fetched one, and the cache
\* and its gateway call hold that token.
C29_Witness ==
    \E q, p \in PayIds :
        /\ q < p
        /\ payPc[q] = "done"
        /\ Len(payWire[q]) = 2
        /\ payWire[q][1] = AuthCall
        /\ payWire[q][2].body \in FetchFailedBodies
        /\ payPc[p] \in {"awaitPush", "awaitStatus"}
        /\ payWire[p][1] = AuthCall
        /\ payWire[p][2].token = Token(p)
        /\ tokenCache.token = Token(p)

\* C30: in server.js, at every moment and for every payload, a callback has
\* been forwarded as many times as it has been acknowledged: not at all
\* before it arrives, once from the turn of its arrival on.
C30_ForwardPerCallback ==
    \A c \in CbIds :
        (cbPc[c] = "idle" \/ cbDraft[c] = "server.js") =>
            /\ Len(Forwards(c)) = Len(Responses(c))
            /\ Len(Responses(c)) = (IF cbPc[c] = "idle" THEN 0 ELSE 1)

\* A callback whose ResultCode is nonzero or absent and that names no
\* CheckoutRequestID has been acknowledged once and forwarded once.
C30_Witness ==
    \E c \in CbIds :
        /\ cbDraft[c] = "server.js"
        /\ cbPc[c] = "done"
        /\ ~ResultCodeIsZero(StkCallback(cbPayload[c]))
        /\ ~Has(StkCallback(cbPayload[c]), "CheckoutRequestID")
        /\ Len(Responses(c)) = 1
        /\ Len(Forwards(c)) = 1

\* C31: in part_003, a callback never has more than one acknowledgement or
\* more than one forward, and once its handler has finished it has been
\* acknowledged exactly once and forwarded to the app server, also when its
\* ResultCode is 0 and CallbackMetadata.Item is not a well-formed list.
C31_AckedOnceAndForwarded ==
    \A c \in CbIds :
        cbDraft[c] = "part_003" =>
            /\ Len(Responses(c)) <= 1
            /\ Len(Forwards(c)) <= 1
            /\ cbPc[c] = "done" =>
                  /\ Len(Responses(c)) = 1
                  /\ Responses(c)[1].data = SuccessAck
                  /\ Len(Forwards(c)) = 1
                  /\ Forwards(c)[1].data = cbPayload[c]

====
